---- MODULE Spec2Model ----
(***************************************************************************)
(* katana: a dependency injector driven by constructor functions.          *)
(*                                                                         *)
(* The model follows the Injector of src/unnamed/part_003 (lines 1-268):   *)
(* a registry of *Dependency entries keyed by type, a cache of singleton   *)
(* instances, and a Trace of the types under resolution.  Resolve and      *)
(* Inject call each other recursively; the recursion is modelled by an     *)
(* explicit call stack per injector, one frame per Resolve call together   *)
(* with the Inject call it makes for the item it is working on.            *)
(*                                                                         *)
(* Specifications: Spec and SpecRecorded (one injector, constructor        *)
(* functions), SpecInputs (one injector, every kind of input), SpecClones  *)
(* (an injector and its clones, calls interleaved), SpecValidated (Resolve *)
(* with the reference validation worded in the specification), SpecTokens  *)
(* (registry keyed by Go types, interface tokens), SpecInject (Inject      *)
(* called by the caller), SpecDiamond (graphs that share types),           *)
(* SpecTrace (the Trace of src/trace.go and the Stack of src/stack.go on   *)
(* their own), SpecKatana (the Injector of src/katana.go, whose providers  *)
(* return errors), SpecCloning (constructors that clone the injector in    *)
(* the middle of a resolution), SpecScoped (a clone with a provider of its *)
(* own), SpecKept (a Trace whose caller keeps the errors it returns).      *)
(***************************************************************************)
EXTENDS Integers, Sequences, FiniteSets, TLC

\* ---------------------------------------------------------------- bounds
MaxInjectors == 2
MaxAddr == 3
MaxItems == 2
MaxDepth == 7
MaxFailures == 2
MaxCalls == 2
MaxLen == 4

\* ------------------------------------------------------- program values
Types == {"A", "B", "C"}
Injectors == 1..MaxInjectors

TypeSingleton == "Singleton Dependency"
TypeNewInstance == "New Instance Dependency"

\* An instance: its address (identity), its type and the arguments its
\* constructor stored in it.
NoInstance == [addr |-> 0, typ |-> "none", args |-> <<>>]

\* A provider function: the type it returns, the types of its parameters in
\* declaration order, its number of return values, and, for the function
\* Provide wraps around a value, the value it returns.
Ctor(out, params, nout) ==
  [out |-> out, params |-> params, nout |-> nout, val |-> NoInstance]

\* The constructor functions the program registers.
Ctors ==
  { Ctor("A", <<"B">>, 1), Ctor("A", <<"B", "C">>, 1), Ctor("A", <<"A">>, 1),
    Ctor("B", <<>>, 1), Ctor("B", <<"A">>, 1),
    Ctor("C", <<>>, 1), Ctor("C", <<"A">>, 1) }

\* Functions that are no valid provider: no return value, and a value
\* together with an error.
InvalidCtors == { Ctor("C", <<>>, 0), Ctor("C", <<>>, 2) }

NoCtor == Ctor("none", <<>>, 0)

\* A value the caller allocated before handing it to Provide; the addresses
\* of values lie below those of the instances constructors allocate.
Value(typ, n) == [addr |-> 0 - n, typ |-> typ, args |-> <<>>]
Values == { Value("B", 1), Value("C", 2) }

\* Provide's closure around a value: func() Instance { return v }.
ValueProvider(v) == [out |-> v.typ, params |-> <<>>, nout |-> 1, val |-> v]

\* A pointer to a Dependency entry on the heap; the entry is shared by
\* every injector whose registry holds the pointer.
NoDep == <<0, "none">>
DepIds == Injectors \X Types

\* A Callable returned by Inject: the resolved arguments it closes over.
NilCallable == [set |-> FALSE, deps |-> <<>>]

\* The Callable Inject returns to a caller: the function and the resolved
\* arguments it closes over.
NoCallable == [set |-> FALSE, fn |-> NoCtor, deps |-> <<>>]

\* The value returned by a call on a Trace or a Stack: the item popped
\* and the error, if any.
Returned(op, item, err) == [op |-> op, item |-> item, err |-> err]

\* The error the caller keeps, with the chain it printed when Push returned it.
NoHeld == [set |-> FALSE, chain |-> <<>>]
KeptError(chain) == [set |-> TRUE, chain |-> chain]

NilDependency == [Type |-> "none", Provider |-> NoCtor, InjectedProvider |-> NilCallable]

\* A reference passed to Resolve: ptr is FALSE when the argument is not a
\* pointer, nil is TRUE when it is a pointer to nothing; typ is the type
\* pointed to.
Ref(typ) == [ptr |-> TRUE, nil |-> FALSE, typ |-> typ]
NonPtr(typ) == [ptr |-> FALSE, nil |-> FALSE, typ |-> typ]
NilRef(typ) == [ptr |-> TRUE, nil |-> TRUE, typ |-> typ]

NoError == [err |-> "none", typ |-> "none", chain |-> <<>>]
Ok == [err |-> "ok", typ |-> "none", chain |-> <<>>]
ErrNoSuchPtr(typ) == [err |-> "ErrNoSuchPtr", typ |-> typ, chain |-> <<>>]
ErrNoSuchProvider(typ) == [err |-> "ErrNoSuchProvider", typ |-> typ, chain |-> <<>>]
ErrInvalidProvider(typ) == [err |-> "ErrInvalidProvider", typ |-> typ, chain |-> <<>>]
ErrProviderAlreadyRegistered(typ) == [err |-> "ErrProviderAlreadyRegistered", typ |-> typ, chain |-> <<>>]
ErrCyclicDependency(chain) == [err |-> "ErrCyclicDependency", typ |-> "none", chain |-> chain]
StackOverflow == [err |-> "StackOverflow", typ |-> "none", chain |-> <<>>]
ErrNilReference(typ) == [err |-> "ErrNilReference", typ |-> typ, chain |-> <<>>]

\* ---------------------------------------------------------------- state
VARIABLES
  live,          \* the injectors created so far
  dependencies,  \* dependencies[i][t]: pointer to the Dependency of type t
  depHeap,       \* the Dependency entries the pointers refer to
  instances,     \* instances[i][t]: the cached singleton instance of t
  trace,         \* trace[i]: the types under resolution
  stack,         \* stack[i]: the Resolve/Inject calls in progress, outermost first
  refs,          \* refs[i]: the caller's locations of the last top-level Resolve
  outcome,       \* outcome[i]: how the last top-level call on i ended
  failed,        \* failed[i]: the requested types whose Resolve failed, with the error
  calls,         \* calls[d]: number of invocations of the constructor of entry d
  nextAddr,      \* the address the next constructed instance gets
  callable,      \* callable[i]: the Callable the last Inject on i returned to its caller
  passed,        \* passed[i]: the arguments that Callable passed to its function, call by call
  traceTypes,    \* Types of a Trace of src/trace.go used on its own
  stackItems,    \* items of a Stack of src/stack.go used on its own
  returned,      \* what the last call on that Trace or Stack returned
  held           \* the last ErrCyclicDependency that Trace returned, kept by the caller

vars == <<live, dependencies, depHeap, instances, trace, stack, refs,
          outcome, failed, calls, nextAddr, callable, passed,
          traceTypes, stackItems, returned, held>>

\* The Trace and the Stack used on their own, which no Injector touches.
unit == <<traceTypes, stackItems, returned, held>>

\* ---------------------------------------------------------------- Trace
Contains(tr, typ) == \E k \in 1..Len(tr) : tr[k] = typ

\* Mutant: Reset leaves the trace as it is.
TraceResetKeeps(tr) == tr

\* Trace.Reset
TraceReset(tr) == <<>>

\* Trace.Add: when typ is already in the trace the error carries the trace
\* with typ appended once, and the deferred Reset leaves the trace empty.
TraceAdd(tr, typ) ==
  IF Contains(tr, typ)
    THEN [trace |-> TraceReset(Append(Append(tr, typ), typ)),
          err |-> ErrCyclicDependency(Append(tr, typ))]
    ELSE [trace |-> Append(tr, typ), err |-> NoError]

\* ------------------------------------------- Trace and Stack on their own
\* The strings pushed by the tests.
Keys == {"1", "2", "3"}

\* The position of the first occurrence of typ in tr.
First(tr, typ) == CHOOSE k \in DOMAIN tr : tr[k] = typ /\ \A m \in 1..(k - 1) : tr[m] # typ

\* Mutant: Push does not look for the type in the trace.
TracePushedSilent(tr, typ) == [Types |-> Append(tr, typ), err |-> NoError]

\* Mutant: a type that is in the trace is reported and not appended.
TracePushedUnlessPresent(tr, typ) ==
  IF Contains(tr, typ)
    THEN [Types |-> tr, err |-> ErrCyclicDependency(Append(tr, typ))]
    ELSE [Types |-> Append(tr, typ), err |-> NoError]

\* Mutant: the error carries the trace from the first occurrence of the type.
TracePushedFromFirst(tr, typ) ==
  [Types |-> Append(tr, typ),
   err |-> IF Contains(tr, typ)
             THEN ErrCyclicDependency(SubSeq(Append(tr, typ), First(tr, typ), Len(tr) + 1))
             ELSE NoError]

\* Trace.Push of src/trace.go: the type is appended in every case.  The
\* error holds the pointer to the trace, so the chain it prints is the trace
\* with the type appended.
TracePushed(tr, typ) ==
  [Types |-> Append(tr, typ),
   err |-> IF Contains(tr, typ) THEN ErrCyclicDependency(Append(tr, typ)) ELSE NoError]

\* Trace.Pop: the last type and the trace without it; "" for an empty trace.
TracePopped(tr) ==
  IF Len(tr) = 0
    THEN [Types |-> tr, item |-> ""]
    ELSE [Types |-> SubSeq(tr, 1, Len(tr) - 1), item |-> tr[Len(tr)]]

\* Stack.Push
StackPushed(st, item) == Append(st, item)

\* Mutant: Pop takes the oldest item.
StackPoppedFirst(st) ==
  IF Len(st) = 0
    THEN [items |-> st, item |-> ""]
    ELSE [items |-> Tail(st), item |-> Head(st)]

\* Stack.Pop
StackPopped(st) ==
  IF Len(st) = 0
    THEN [items |-> st, item |-> ""]
    ELSE [items |-> SubSeq(st, 1, Len(st) - 1), item |-> st[Len(st)]]

\* What the ErrCyclicDependency the caller keeps prints now: the error holds
\* the pointer to the trace, not a copy of its Types, so it prints the Types
\* the trace holds at the time of printing.
HeldChain == IF held.set THEN traceTypes ELSE <<>>

Injector == <<live, dependencies, depHeap, instances, trace, stack, refs,
              outcome, failed, calls, nextAddr, callable, passed>>

TracePush(typ) ==
  /\ Len(traceTypes) < MaxLen
  /\ traceTypes' = TracePushed(traceTypes, typ).Types
  /\ returned' = Returned("Trace.Push", "", TracePushed(traceTypes, typ).err)
  /\ UNCHANGED <<stackItems, Injector>>

TracePop ==
  /\ traceTypes' = TracePopped(traceTypes).Types
  /\ returned' = Returned("Trace.Pop", TracePopped(traceTypes).item, NoError)
  /\ UNCHANGED <<stackItems, Injector>>

StackPush(item) ==
  /\ Len(stackItems) < MaxLen
  /\ stackItems' = StackPushed(stackItems, item)
  /\ returned' = Returned("Stack.Push", "", NoError)
  /\ UNCHANGED <<traceTypes, Injector>>

StackPop ==
  /\ stackItems' = StackPopped(stackItems).items
  /\ returned' = Returned("Stack.Pop", StackPopped(stackItems).item, NoError)
  /\ UNCHANGED <<traceTypes, Injector>>

StackReset ==
  /\ stackItems' = <<>>
  /\ returned' = Returned("Stack.Reset", "", NoError)
  /\ UNCHANGED <<traceTypes, Injector>>

\* ------------------------------------------------------------- Injector
\* Mutant: only a function without return value is rejected.
ValidateProviderNonVoid(p) ==
  IF p.nout = 0 THEN ErrInvalidProvider(p.out) ELSE NoError

ValidateProvider(p) ==
  IF p.nout # 1 THEN ErrInvalidProvider(p.out) ELSE NoError

\* Mutant: the cache is never consulted.
CacheHitNever(policy, inst) == FALSE

\* Resolve's cache check: only a singleton is looked up in the cache.
CacheHit(policy, inst) == policy = TypeSingleton /\ inst # NoInstance

\* Mutant: Inject is called on every resolution, whatever the entry holds.
NeedsInjectAlways(dep) == TRUE

\* Mutant: the injected provider is reused whatever the policy.
NeedsInjectOnce(dep) == ~dep.InjectedProvider.set

\* Resolve's decision to call Inject: always for a new instance provider,
\* and for a singleton provider until its injected provider is stored.
NeedsInject(dep) == dep.Type = TypeNewInstance \/ ~dep.InjectedProvider.set

\* Mutant: the resolved instance is never cached.
CacheStoreNever(cache, policy, typ, inst) == cache

\* Mutant: every resolved instance is cached, whatever the policy.
CacheStoreAlways(cache, policy, typ, inst) == [cache EXCEPT ![typ] = inst]

\* Resolve's last statement: the cache after inst of type typ was resolved.
CacheStore(cache, policy, typ, inst) ==
  IF policy = TypeSingleton THEN [cache EXCEPT ![typ] = inst] ELSE cache

\* Mutant: the loop resolves the parameters last to first.
NextParamReversed(p, deps) == p.params[Len(p.params) - Len(deps)]

\* Inject's loop: the type of the parameter resolved next, deps being the
\* arguments resolved so far, and the end of the loop.
NextParam(p, deps) == p.params[Len(deps) + 1]
ArgsReady(p, deps) == Len(deps) = Len(p.params)

\* The call of the function by the injected closure: the value the
\* constructor returns, a new object holding the arguments.
Construct(p, deps, addr) ==
  IF p.val # NoInstance THEN p.val ELSE [addr |-> addr, typ |-> p.out, args |-> deps]

\* The address the next allocation gets once the function of p was called.
Allocated(p, addr) == IF p.val # NoInstance THEN addr ELSE addr + 1

Frame(items) == [items |-> items, refs |-> <<>>, pc |-> "item", deps |-> <<>>]

Top(i) == stack[i][Len(stack[i])]
Idle(i) == stack[i] = <<>>
Crashed == \E i \in Injectors : outcome[i] = StackOverflow
CanCall(i) == i \in live /\ Idle(i) /\ ~Crashed

\* Mutant: the loop takes the references last to first.
ItemFromLast(f) == f.items[Len(f.items) - Len(f.refs)]

\* The item the top frame is working on.
Item(f) == f.items[Len(f.refs) + 1]

ReplaceTop(i, f) == [stack EXCEPT ![i] = [@ EXCEPT ![Len(@)] = f]]

\* New: an injector with empty registry, cache and trace.
Init ==
  /\ live = {1}
  /\ dependencies = [i \in Injectors |-> [t \in Types |-> NoDep]]
  /\ depHeap = [d \in DepIds |-> NilDependency]
  /\ instances = [i \in Injectors |-> [t \in Types |-> NoInstance]]
  /\ trace = [i \in Injectors |-> <<>>]
  /\ stack = [i \in Injectors |-> <<>>]
  /\ refs = [i \in Injectors |-> <<>>]
  /\ outcome = [i \in Injectors |-> NoError]
  /\ failed = [i \in Injectors |-> {}]
  /\ calls = [d \in DepIds |-> 0]
  /\ nextAddr = 1
  /\ callable = [i \in Injectors |-> NoCallable]
  /\ passed = [i \in Injectors |-> <<>>]
  /\ traceTypes = <<>>
  /\ stackItems = <<>>
  /\ returned = Returned("none", "", NoError)
  /\ held = NoHeld

\* Mutant: the clone gets the registry and an empty cache.
CloneWithoutInstances(i, j) ==
  /\ CanCall(i)
  /\ j \in Injectors \ live
  /\ \A k \in Injectors \ live : j <= k
  /\ live' = live \cup {j}
  /\ dependencies' = [dependencies EXCEPT ![j] = dependencies[i]]
  /\ instances' = [instances EXCEPT ![j] = [t \in Types |-> NoInstance]]
  /\ trace' = [trace EXCEPT ![j] = <<>>]
  /\ UNCHANGED <<depHeap, stack, refs, outcome, calls, nextAddr>>

\* Mutant: the clone gets the cache and an empty registry.
CloneWithoutDependencies(i, j) ==
  /\ CanCall(i)
  /\ j \in Injectors \ live
  /\ \A k \in Injectors \ live : j <= k
  /\ live' = live \cup {j}
  /\ dependencies' = [dependencies EXCEPT ![j] = [t \in Types |-> NoDep]]
  /\ instances' = [instances EXCEPT ![j] = instances[i]]
  /\ trace' = [trace EXCEPT ![j] = <<>>]
  /\ UNCHANGED <<depHeap, stack, refs, outcome, calls, nextAddr>>

\* Clone: a new injector j whose registry holds the entry pointers of i and
\* whose cache holds the instances of i, with a trace of its own.
Clone(i, j) ==
  /\ CanCall(i)
  /\ j \in Injectors \ live
  /\ \A k \in Injectors \ live : j <= k
  /\ live' = live \cup {j}
  /\ dependencies' = [dependencies EXCEPT ![j] = dependencies[i]]
  /\ instances' = [instances EXCEPT ![j] = instances[i]]
  /\ trace' = [trace EXCEPT ![j] = <<>>]
  /\ UNCHANGED <<depHeap, stack, refs, outcome, calls, nextAddr>>

\* Mutant: the clone starts with the types the original has under
\* resolution.
CloneInCallWithTrace(i, j) ==
  /\ i \in live /\ ~Idle(i) /\ ~Crashed
  /\ LET f == Top(i)
         p == depHeap[dependencies[i][Item(f).typ]].Provider
     IN \/ f.pc = "call"
        \/ f.pc = "inject" /\ ArgsReady(p, f.deps)
  /\ j \in Injectors \ live
  /\ \A k \in Injectors \ live : j <= k
  /\ live' = live \cup {j}
  /\ dependencies' = [dependencies EXCEPT ![j] = dependencies[i]]
  /\ instances' = [instances EXCEPT ![j] = instances[i]]
  /\ trace' = [trace EXCEPT ![j] = trace[i]]
  /\ UNCHANGED <<depHeap, stack, refs, outcome, calls, nextAddr>>

\* Clone called while a Resolve is in progress on i, by the constructor that
\* Resolve is about to call (a function that holds the injector): the
\* arguments are resolved and the type is on the trace.
CloneInCall(i, j) ==
  /\ i \in live /\ ~Idle(i) /\ ~Crashed
  /\ LET f == Top(i)
         p == depHeap[dependencies[i][Item(f).typ]].Provider
     IN \/ f.pc = "call"
        \/ f.pc = "inject" /\ ArgsReady(p, f.deps)
  /\ j \in Injectors \ live
  /\ \A k \in Injectors \ live : j <= k
  /\ live' = live \cup {j}
  /\ dependencies' = [dependencies EXCEPT ![j] = dependencies[i]]
  /\ instances' = [instances EXCEPT ![j] = instances[i]]
  /\ trace' = [trace EXCEPT ![j] = <<>>]
  /\ UNCHANGED <<depHeap, stack, refs, outcome, calls, nextAddr>>

\* A panic unwinds every call in progress on the injector; the locations
\* the outermost Resolve has already written keep their values.
Panic(i, err, tr) ==
  /\ stack' = [stack EXCEPT ![i] = <<>>]
  /\ refs' = [refs EXCEPT ![i] = stack[i][1].refs]
  /\ outcome' = [outcome EXCEPT ![i] = err]
  /\ trace' = [trace EXCEPT ![i] = tr]
  /\ UNCHANGED <<live, dependencies, depHeap, instances, calls, nextAddr>>

\* Mutant: the registries of an injector and of its clones are one map, so
\* that the new entry shows in every live injector without entry for the key.
RegisterShared(i, typ, policy, p) ==
  /\ CanCall(i)
  /\ IF dependencies[i][typ] # NoDep
       THEN /\ outcome' = [outcome EXCEPT ![i] = ErrProviderAlreadyRegistered(typ)]
            /\ UNCHANGED <<dependencies, depHeap>>
       ELSE IF ValidateProvider(p) # NoError
         THEN /\ outcome' = [outcome EXCEPT ![i] = ValidateProvider(p)]
              /\ UNCHANGED <<dependencies, depHeap>>
         ELSE /\ dependencies' =
                   [k \in Injectors |->
                      IF k \in live /\ dependencies[k][typ] = NoDep
                        THEN [dependencies[k] EXCEPT ![typ] = <<i, typ>>]
                        ELSE dependencies[k]]
              /\ depHeap' = [depHeap EXCEPT ![<<i, typ>>] =
                               [Type |-> policy, Provider |-> p,
                                InjectedProvider |-> NilCallable]]
              /\ outcome' = [outcome EXCEPT ![i] = Ok]
  /\ UNCHANGED <<live, instances, trace, stack, refs, calls, nextAddr>>

\* Mutant: a registration replaces the entry the key already has.
RegisterOverwrite(i, typ, policy, p) ==
  /\ CanCall(i)
  /\ IF ValidateProvider(p) # NoError
       THEN /\ outcome' = [outcome EXCEPT ![i] = ValidateProvider(p)]
            /\ UNCHANGED <<dependencies, depHeap>>
       ELSE /\ dependencies' = [dependencies EXCEPT ![i][typ] = <<i, typ>>]
            /\ depHeap' = [depHeap EXCEPT ![<<i, typ>>] =
                             [Type |-> policy, Provider |-> p,
                              InjectedProvider |-> NilCallable]]
            /\ outcome' = [outcome EXCEPT ![i] = Ok]
  /\ UNCHANGED <<live, instances, trace, stack, refs, calls, nextAddr>>

Register(i, typ, policy, p) ==
  /\ CanCall(i)
  /\ IF dependencies[i][typ] # NoDep
       THEN /\ outcome' = [outcome EXCEPT ![i] = ErrProviderAlreadyRegistered(typ)]
            /\ UNCHANGED <<dependencies, depHeap>>
       ELSE IF ValidateProvider(p) # NoError
         THEN /\ outcome' = [outcome EXCEPT ![i] = ValidateProvider(p)]
              /\ UNCHANGED <<dependencies, depHeap>>
         ELSE /\ dependencies' = [dependencies EXCEPT ![i][typ] = <<i, typ>>]
              /\ depHeap' = [depHeap EXCEPT ![<<i, typ>>] =
                               [Type |-> policy, Provider |-> p,
                                InjectedProvider |-> NilCallable]]
              /\ outcome' = [outcome EXCEPT ![i] = Ok]
  /\ UNCHANGED <<live, instances, trace, stack, refs, calls, nextAddr>>

ProvideNew(i, typ, p) == Register(i, typ, TypeNewInstance, p)

ProvideSingleton(i, typ, p) == Register(i, typ, TypeSingleton, p)

RECURSIVE ProvideValuesAsNew(_, _, _, _)
\* Mutant: the values are registered with the new instance policy.
ProvideValuesAsNew(i, deps, heap, values) ==
  IF values = <<>>
    THEN [dependencies |-> deps, depHeap |-> heap, err |-> Ok]
    ELSE LET v == Head(values)
             p == ValueProvider(v)
         IN
         IF deps[v.typ] # NoDep
           THEN [dependencies |-> deps, depHeap |-> heap,
                 err |-> ErrProviderAlreadyRegistered(v.typ)]
         ELSE ProvideValuesAsNew(i, [deps EXCEPT ![v.typ] = <<i, v.typ>>],
                                 [heap EXCEPT ![<<i, v.typ>>] =
                                    [Type |-> TypeNewInstance, Provider |-> p,
                                     InjectedProvider |-> NilCallable]],
                                 Tail(values))

RECURSIVE ProvideValues(_, _, _, _)
\* Provide's loop: ProvideSingleton of each value in turn, up to the first
\* one that panics; deps is the registry of injector i, heap the entries.
ProvideValues(i, deps, heap, values) ==
  IF values = <<>>
    THEN [dependencies |-> deps, depHeap |-> heap, err |-> Ok]
    ELSE LET v == Head(values)
             p == ValueProvider(v)
         IN
         IF deps[v.typ] # NoDep
           THEN [dependencies |-> deps, depHeap |-> heap,
                 err |-> ErrProviderAlreadyRegistered(v.typ)]
         ELSE IF ValidateProvider(p) # NoError
           THEN [dependencies |-> deps, depHeap |-> heap, err |-> ValidateProvider(p)]
         ELSE ProvideValues(i, [deps EXCEPT ![v.typ] = <<i, v.typ>>],
                            [heap EXCEPT ![<<i, v.typ>>] =
                               [Type |-> TypeSingleton, Provider |-> p,
                                InjectedProvider |-> NilCallable]],
                            Tail(values))

Provide(i, values) ==
  /\ CanCall(i)
  /\ LET r == ProvideValues(i, dependencies[i], depHeap, values) IN
     /\ dependencies' = [dependencies EXCEPT ![i] = r.dependencies]
     /\ depHeap' = r.depHeap
     /\ outcome' = [outcome EXCEPT ![i] = r.err]
  /\ UNCHANGED <<live, instances, trace, stack, refs, calls, nextAddr>>

\* The caller invokes Resolve(items...).
Resolve(i, items) ==
  /\ CanCall(i)
  /\ nextAddr <= MaxAddr
  /\ stack' = [stack EXCEPT ![i] = <<Frame(items)>>]
  /\ refs' = [refs EXCEPT ![i] = <<>>]
  /\ outcome' = [outcome EXCEPT ![i] = NoError]
  /\ UNCHANGED <<live, dependencies, depHeap, instances, trace, calls, nextAddr>>

\* Mutant: a reference whose type has no provider is left unset and the
\* loop goes on with the next reference.
ResolveItemSkipsMissing(i) ==
  /\ i \in live /\ ~Idle(i) /\ ~Crashed
  /\ LET f == Top(i) IN
     /\ f.pc = "item"
     /\ Len(f.refs) < Len(f.items)
     /\ LET item == Item(f)
            typ == item.typ
            d == dependencies[i][typ]
            added == TraceAdd(trace[i], typ)
        IN
        IF ~item.ptr THEN Panic(i, ErrNoSuchPtr(typ), trace[i])
        ELSE IF d = NoDep
          THEN /\ stack' = ReplaceTop(i, [f EXCEPT !.refs = Append(@, NoInstance)])
               /\ UNCHANGED <<live, dependencies, depHeap, instances, trace, refs,
                              outcome, calls, nextAddr>>
        ELSE IF CacheHit(depHeap[d].Type, instances[i][typ])
          THEN /\ stack' = ReplaceTop(i, [f EXCEPT !.refs = Append(@, instances[i][typ])])
               /\ UNCHANGED <<live, dependencies, depHeap, instances, trace, refs,
                              outcome, calls, nextAddr>>
        ELSE IF added.err # NoError THEN Panic(i, added.err, added.trace)
        ELSE /\ trace' = [trace EXCEPT ![i] = added.trace]
             /\ stack' = ReplaceTop(i,
                  [f EXCEPT !.pc = IF NeedsInject(depHeap[d]) THEN "inject" ELSE "call",
                            !.deps = <<>>])
             /\ UNCHANGED <<live, dependencies, depHeap, instances, refs,
                            outcome, calls, nextAddr>>

\* Mutant: the provider is looked up before the reference is checked.
ResolveItemLookupFirst(i) ==
  /\ i \in live /\ ~Idle(i) /\ ~Crashed
  /\ LET f == Top(i) IN
     /\ f.pc = "item"
     /\ Len(f.refs) < Len(f.items)
     /\ LET item == Item(f)
            typ == item.typ
            d == dependencies[i][typ]
            added == TraceAdd(trace[i], typ)
        IN
        IF d = NoDep THEN Panic(i, ErrNoSuchProvider(typ), trace[i])
        ELSE IF ~item.ptr THEN Panic(i, ErrNoSuchPtr(typ), trace[i])
        ELSE IF CacheHit(depHeap[d].Type, instances[i][typ])
          THEN /\ stack' = ReplaceTop(i, [f EXCEPT !.refs = Append(@, instances[i][typ])])
               /\ UNCHANGED <<live, dependencies, depHeap, instances, trace, refs,
                              outcome, calls, nextAddr>>
        ELSE IF added.err # NoError THEN Panic(i, added.err, added.trace)
        ELSE /\ trace' = [trace EXCEPT ![i] = added.trace]
             /\ stack' = ReplaceTop(i,
                  [f EXCEPT !.pc = IF NeedsInject(depHeap[d]) THEN "inject" ELSE "call",
                            !.deps = <<>>])
             /\ UNCHANGED <<live, dependencies, depHeap, instances, refs,
                            outcome, calls, nextAddr>>

\* Resolve, one iteration of its loop up to the call of Inject: reference
\* check, provider lookup, cache check, Trace.Add.
ResolveItem(i) ==
  /\ i \in live /\ ~Idle(i) /\ ~Crashed
  /\ LET f == Top(i) IN
     /\ f.pc = "item"
     /\ Len(f.refs) < Len(f.items)
     /\ LET item == Item(f)
            typ == item.typ
            d == dependencies[i][typ]
            added == TraceAdd(trace[i], typ)
        IN
        IF ~item.ptr THEN Panic(i, ErrNoSuchPtr(typ), trace[i])
        ELSE IF d = NoDep THEN Panic(i, ErrNoSuchProvider(typ), trace[i])
        ELSE IF CacheHit(depHeap[d].Type, instances[i][typ])
          THEN /\ stack' = ReplaceTop(i, [f EXCEPT !.refs = Append(@, instances[i][typ])])
               /\ UNCHANGED <<live, dependencies, depHeap, instances, trace, refs,
                              outcome, calls, nextAddr>>
        ELSE IF added.err # NoError THEN Panic(i, added.err, added.trace)
        ELSE /\ trace' = [trace EXCEPT ![i] = added.trace]
             /\ stack' = ReplaceTop(i,
                  [f EXCEPT !.pc = IF NeedsInject(depHeap[d]) THEN "inject" ELSE "call",
                            !.deps = <<>>])
             /\ UNCHANGED <<live, dependencies, depHeap, instances, refs,
                            outcome, calls, nextAddr>>

\* Mutant: the validation looks at the kind of the argument only.
ValidateReferenceShapeOnly(item) ==
  IF ~item.ptr THEN ErrNoSuchPtr(item.typ) ELSE NoError

\* Validation of the reference as the specification words it (resolution
\* algorithm, step 1): the argument must be a location, and a location that
\* points to nothing is refused with ErrNilReference.
ValidateReference(item) ==
  IF ~item.ptr THEN ErrNoSuchPtr(item.typ)
  ELSE IF item.nil THEN ErrNilReference(item.typ)
  ELSE NoError

\* One iteration of Resolve with the validation of step 1 in front of it.
ResolveItemValidated(i) ==
  /\ i \in live /\ ~Idle(i) /\ ~Crashed
  /\ Top(i).pc = "item"
  /\ Len(Top(i).refs) < Len(Top(i).items)
  /\ IF ValidateReference(Item(Top(i))) # NoError
       THEN Panic(i, ValidateReference(Item(Top(i))), trace[i])
       ELSE ResolveItem(i)

\* Inject, one iteration of its loop: it allocates a reference of the next
\* parameter's type and calls Resolve on it.
InjectParam(i) ==
  /\ i \in live /\ ~Idle(i) /\ ~Crashed
  /\ LET f == Top(i)
         p == depHeap[dependencies[i][Item(f).typ]].Provider
     IN
     /\ f.pc = "inject"
     /\ ~ArgsReady(p, f.deps)
     /\ IF Len(stack[i]) >= MaxDepth
          THEN Panic(i, StackOverflow, trace[i])
          ELSE /\ stack' = [stack EXCEPT ![i] =
                              Append(@, Frame(<<Ref(NextParam(p, f.deps))>>))]
               /\ UNCHANGED <<live, dependencies, depHeap, instances, trace, refs,
                              outcome, calls, nextAddr>>

\* Resolve from the return of Inject to the end of the iteration: the
\* injected provider is stored in the entry and called, the trace is reset,
\* the reference is set and a singleton is cached.
Invoke(i) ==
  /\ i \in live /\ ~Idle(i) /\ ~Crashed
  /\ LET f == Top(i)
         typ == Item(f).typ
         d == dependencies[i][typ]
         dep == depHeap[d]
         injected == IF f.pc = "inject"
                       THEN [set |-> TRUE, deps |-> f.deps]
                       ELSE dep.InjectedProvider
         inst == Construct(dep.Provider, injected.deps, nextAddr)
     IN
     /\ \/ f.pc = "inject" /\ ArgsReady(dep.Provider, f.deps)
        \/ f.pc = "call"
     /\ depHeap' = [depHeap EXCEPT ![d].InjectedProvider = injected]
     /\ calls' = [calls EXCEPT ![d] = @ + 1]
     /\ nextAddr' = Allocated(dep.Provider, nextAddr)
     /\ trace' = [trace EXCEPT ![i] = TraceReset(@)]
     /\ IF dep.Provider.nout # 1
          THEN /\ stack' = [stack EXCEPT ![i] = <<>>]
               /\ refs' = [refs EXCEPT ![i] = stack[i][1].refs]
               /\ outcome' = [outcome EXCEPT ![i] = ErrInvalidProvider(dep.Provider.out)]
               /\ UNCHANGED instances
          ELSE /\ stack' = ReplaceTop(i, [f EXCEPT !.refs = Append(@, inst),
                                                   !.pc = "item", !.deps = <<>>])
               /\ instances' = [instances EXCEPT ![i] = CacheStore(@, dep.Type, typ, inst)]
               /\ UNCHANGED <<refs, outcome>>
     /\ UNCHANGED <<live, dependencies>>

\* Resolve returns: to the caller, or to the Inject that called it, which
\* stores the resolved value as the next argument.
Return(i) ==
  /\ i \in live /\ ~Idle(i) /\ ~Crashed
  /\ LET f == Top(i)
         n == Len(stack[i])
     IN
     /\ f.pc = "item"
     /\ Len(f.refs) = Len(f.items)
     /\ IF n = 1
          THEN /\ stack' = [stack EXCEPT ![i] = <<>>]
               /\ refs' = [refs EXCEPT ![i] = f.refs]
               /\ outcome' = [outcome EXCEPT ![i] = Ok]
          ELSE /\ stack' = [stack EXCEPT ![i] =
                              [SubSeq(@, 1, n - 1) EXCEPT ![n - 1].deps = Append(@, f.refs[1])]]
               /\ UNCHANGED <<refs, outcome>>
  /\ UNCHANGED <<live, dependencies, depHeap, instances, trace, calls, nextAddr>>

\* The caller invokes Inject(fn): the frame holds the references Inject
\* allocates, one per parameter of fn, and the arguments resolved so far.
Inject(i, fn) ==
  /\ CanCall(i)
  /\ nextAddr <= MaxAddr
  /\ stack' = [stack EXCEPT ![i] =
                 <<[items |-> [k \in DOMAIN fn.params |-> Ref(fn.params[k])],
                    refs |-> <<>>, pc |-> "fn", deps |-> <<>>]>>]
  /\ refs' = [refs EXCEPT ![i] = <<>>]
  /\ outcome' = [outcome EXCEPT ![i] = NoError]
  /\ UNCHANGED <<live, dependencies, depHeap, instances, trace, calls, nextAddr,
                 callable, passed>>

\* Inject called by the caller, one iteration of its loop: Resolve of the
\* reference allocated for the next parameter.
InjectArg(i) ==
  /\ i \in live /\ ~Idle(i) /\ ~Crashed
  /\ LET f == Top(i) IN
     /\ f.pc = "fn"
     /\ Len(f.deps) < Len(f.items)
     /\ stack' = [stack EXCEPT ![i] = Append(@, Frame(<<f.items[Len(f.deps) + 1]>>))]
  /\ UNCHANGED <<live, dependencies, depHeap, instances, trace, refs, outcome,
                 calls, nextAddr, callable, passed>>

\* Inject returns to the caller the closure over fn and the arguments.
InjectDone(i, fn) ==
  /\ i \in live /\ ~Idle(i) /\ ~Crashed
  /\ LET f == Top(i) IN
     /\ f.pc = "fn"
     /\ Len(f.deps) = Len(f.items)
     /\ f.items = [k \in DOMAIN fn.params |-> Ref(fn.params[k])]
     /\ callable' = [callable EXCEPT ![i] = [set |-> TRUE, fn |-> fn, deps |-> f.deps]]
  /\ passed' = [passed EXCEPT ![i] = <<>>]
  /\ stack' = [stack EXCEPT ![i] = <<>>]
  /\ outcome' = [outcome EXCEPT ![i] = Ok]
  /\ UNCHANGED <<live, dependencies, depHeap, instances, trace, refs, calls, nextAddr>>

\* Mutant: the closure hands its arguments over, and holds none afterwards.
CallInjectedOnce(i) ==
  /\ CanCall(i)
  /\ callable[i].set
  /\ Len(passed[i]) < MaxCalls
  /\ passed' = [passed EXCEPT ![i] = Append(@, callable[i].deps)]
  /\ callable' = [callable EXCEPT ![i].deps = <<>>]
  /\ UNCHANGED <<live, dependencies, depHeap, instances, trace, stack, refs, outcome,
                 calls, nextAddr>>

\* The caller calls the Callable Inject returned: val.Call(deps).
CallInjected(i) ==
  /\ CanCall(i)
  /\ callable[i].set
  /\ Len(passed[i]) < MaxCalls
  /\ passed' = [passed EXCEPT ![i] = Append(@, callable[i].deps)]
  /\ UNCHANGED <<live, dependencies, depHeap, instances, trace, stack, refs, outcome,
                 calls, nextAddr, callable>>

\* --------------------------------------- the Injector of src/katana.go
\* In src/katana.go a Provider is a func(*Injector) (Instance, error): it
\* resolves its dependencies itself with one call of injector.Resolve, as in
\* the example of the Readme, and returns the instance or an error.  Resolve
\* returns its errors instead of panicking.  params are the types the
\* provider resolves.

\* The error a provider returns on its own account.
ErrProvider(typ) == [err |-> "ErrProvider", typ |-> typ, chain |-> <<>>]
\* log.Fatalf: the program has ended.
Fatal(typ) == [err |-> "Fatal", typ |-> typ, chain |-> <<>>]

Running(i) == i \in live /\ outcome[i].err # "Fatal" /\ ~Crashed

\* ProvideNew and ProvideSingleton of src/katana.go.
KatanaRegister(i, typ, policy, p) ==
  /\ Running(i) /\ Idle(i)
  /\ IF dependencies[i][typ] # NoDep
       THEN /\ outcome' = [outcome EXCEPT ![i] = Fatal(typ)]
            /\ UNCHANGED <<dependencies, depHeap>>
       ELSE /\ dependencies' = [dependencies EXCEPT ![i][typ] = <<i, typ>>]
            /\ depHeap' = [depHeap EXCEPT ![<<i, typ>>] =
                             [Type |-> policy, Provider |-> p,
                              InjectedProvider |-> NilCallable]]
            /\ outcome' = [outcome EXCEPT ![i] = Ok]
  /\ UNCHANGED <<live, instances, trace, stack, refs, calls, nextAddr>>

KatanaProvideNew(i, typ, p) == KatanaRegister(i, typ, TypeNewInstance, p)

KatanaProvideSingleton(i, typ, p) == KatanaRegister(i, typ, TypeSingleton, p)

\* The caller invokes Resolve(items...); it stops doing so once a provider
\* has been called MaxCalls times.
KatanaResolve(i, items) ==
  /\ Running(i) /\ Idle(i)
  /\ nextAddr <= MaxAddr
  /\ \A d \in DepIds : calls[d] < MaxCalls
  /\ stack' = [stack EXCEPT ![i] = <<Frame(items)>>]
  /\ refs' = [refs EXCEPT ![i] = <<>>]
  /\ outcome' = [outcome EXCEPT ![i] = NoError]
  /\ UNCHANGED <<live, dependencies, depHeap, instances, trace, calls, nextAddr>>

\* A Resolve returns err.  The provider that called it returns the error in
\* turn, the Resolve that called that provider resets the trace and returns
\* it, and so on up to the caller; tr is the trace the failing Resolve
\* leaves.
KatanaFail(i, err, tr) ==
  /\ stack' = [stack EXCEPT ![i] = <<>>]
  /\ refs' = [refs EXCEPT ![i] = stack[i][1].refs]
  /\ outcome' = [outcome EXCEPT ![i] = err]
  /\ trace' = [trace EXCEPT ![i] = IF Len(stack[i]) > 1 THEN TraceReset(tr) ELSE tr]
  /\ UNCHANGED <<live, dependencies, depHeap, instances, nextAddr>>

\* Resolve, one iteration of its loop up to the call of the provider.
KatanaResolveItem(i) ==
  /\ Running(i) /\ ~Idle(i)
  /\ LET f == Top(i) IN
     /\ f.pc = "item"
     /\ Len(f.refs) < Len(f.items)
     /\ LET item == Item(f)
            typ == item.typ
            d == dependencies[i][typ]
            added == TraceAdd(trace[i], typ)
        IN
        IF ~item.ptr THEN KatanaFail(i, ErrNoSuchPtr(typ), trace[i]) /\ UNCHANGED calls
        ELSE IF d = NoDep
          THEN KatanaFail(i, ErrNoSuchProvider(typ), trace[i]) /\ UNCHANGED calls
        ELSE IF CacheHit(depHeap[d].Type, instances[i][typ])
          THEN /\ stack' = ReplaceTop(i, [f EXCEPT !.refs = Append(@, instances[i][typ])])
               /\ UNCHANGED <<live, dependencies, depHeap, instances, trace, refs,
                              outcome, calls, nextAddr>>
        ELSE IF added.err # NoError
          THEN KatanaFail(i, added.err, added.trace) /\ UNCHANGED calls
        ELSE /\ trace' = [trace EXCEPT ![i] = added.trace]
             /\ stack' = ReplaceTop(i, [f EXCEPT !.pc = "provider", !.deps = <<>>])
             /\ calls' = [calls EXCEPT ![d] = @ + 1]
             /\ UNCHANGED <<live, dependencies, depHeap, instances, refs,
                            outcome, nextAddr>>

\* The provider calls injector.Resolve with the references of the types it
\* depends on.
KatanaProviderResolve(i) ==
  /\ Running(i) /\ ~Idle(i)
  /\ LET f == Top(i)
         p == depHeap[dependencies[i][Item(f).typ]].Provider
     IN
     /\ f.pc = "provider"
     /\ Len(f.deps) < Len(p.params)
     /\ IF Len(stack[i]) >= MaxDepth
          THEN /\ stack' = [stack EXCEPT ![i] = <<>>]
               /\ refs' = [refs EXCEPT ![i] = stack[i][1].refs]
               /\ outcome' = [outcome EXCEPT ![i] = StackOverflow]
               /\ UNCHANGED trace
          ELSE /\ stack' = [stack EXCEPT ![i] =
                              Append(@, Frame([k \in DOMAIN p.params |-> Ref(p.params[k])]))]
               /\ UNCHANGED <<trace, refs, outcome>>
  /\ UNCHANGED <<live, dependencies, depHeap, instances, calls, nextAddr>>

\* Mutant: Resolve does not look at the error the provider returns.
KatanaProviderReturnsUnchecked(i, err) ==
  /\ Running(i) /\ ~Idle(i)
  /\ LET f == Top(i)
         typ == Item(f).typ
         dep == depHeap[dependencies[i][typ]]
         inst == Construct(dep.Provider, f.deps, nextAddr)
     IN
     /\ f.pc = "provider"
     /\ Len(f.deps) = Len(dep.Provider.params)
     /\ err \in {NoError, ErrProvider(typ)}
     /\ trace' = [trace EXCEPT ![i] = TraceReset(@)]
     /\ stack' = ReplaceTop(i, [f EXCEPT !.refs = Append(@, inst),
                                        !.pc = "item", !.deps = <<>>])
     /\ instances' = [instances EXCEPT ![i] = CacheStore(@, dep.Type, typ, inst)]
     /\ nextAddr' = Allocated(dep.Provider, nextAddr)
     /\ UNCHANGED <<refs, outcome>>
  /\ UNCHANGED <<live, dependencies, depHeap, calls>>

\* The provider returns, with the instance it built or with the error err,
\* and Resolve goes on to the end of the iteration: the trace is reset, the
\* error is returned, or else the reference is set and a singleton cached.
KatanaProviderReturns(i, err) ==
  /\ Running(i) /\ ~Idle(i)
  /\ LET f == Top(i)
         typ == Item(f).typ
         dep == depHeap[dependencies[i][typ]]
         inst == Construct(dep.Provider, f.deps, nextAddr)
     IN
     /\ f.pc = "provider"
     /\ Len(f.deps) = Len(dep.Provider.params)
     /\ err \in {NoError, ErrProvider(typ)}
     /\ IF err # NoError
          THEN KatanaFail(i, err, TraceReset(trace[i]))
          ELSE /\ trace' = [trace EXCEPT ![i] = TraceReset(@)]
               /\ stack' = ReplaceTop(i, [f EXCEPT !.refs = Append(@, inst),
                                                  !.pc = "item", !.deps = <<>>])
               /\ instances' = [instances EXCEPT ![i] = CacheStore(@, dep.Type, typ, inst)]
               /\ nextAddr' = Allocated(dep.Provider, nextAddr)
               /\ UNCHANGED <<live, dependencies, depHeap, refs, outcome>>
  /\ UNCHANGED calls

\* Resolve returns nil: to the caller, or to the provider that called it,
\* which then holds the instances it depends on.
KatanaReturn(i) ==
  /\ Running(i) /\ ~Idle(i)
  /\ LET f == Top(i)
         n == Len(stack[i])
     IN
     /\ f.pc = "item"
     /\ Len(f.refs) = Len(f.items)
     /\ IF n = 1
          THEN /\ stack' = [stack EXCEPT ![i] = <<>>]
               /\ refs' = [refs EXCEPT ![i] = f.refs]
               /\ outcome' = [outcome EXCEPT ![i] = Ok]
          ELSE /\ stack' = [stack EXCEPT ![i] =
                              [SubSeq(@, 1, n - 1) EXCEPT ![n - 1].deps = f.refs]]
               /\ UNCHANGED <<refs, outcome>>
  /\ UNCHANGED <<live, dependencies, depHeap, instances, trace, calls, nextAddr>>

\* ------------------------------------------------------- specification
\* The lists of references a caller passes to Resolve.
RefLists == UNION { [1..n -> {Ref(t) : t \in Types}] : n \in 1..MaxItems }
SingleRefs == { <<Ref(t)>> : t \in Types }

\* The caller's record of the Resolve calls that failed: the type asked for
\* by the reference that failed, and the error.
RecordFailure ==
  failed' = [i \in Injectors |->
               IF stack[i] # <<>> /\ stack'[i] = <<>> /\ outcome'[i] # Ok
                 THEN failed[i] \cup {[typ |-> Item(stack[i][1]).typ, err |-> outcome'[i].err,
                                      at |-> outcome'[i].typ]}
                 ELSE failed[i]]

Next ==
  \/ \E c \in Ctors : ProvideNew(1, c.out, c) /\ UNCHANGED <<failed, callable, passed, unit>>
  \/ \E c \in Ctors : ProvideSingleton(1, c.out, c) /\ UNCHANGED <<failed, callable, passed, unit>>
  \/ \E items \in RefLists : Resolve(1, items) /\ UNCHANGED <<failed, callable, passed, unit>>
  \/ ResolveItem(1) /\ UNCHANGED <<failed, callable, passed, unit>>
  \/ InjectParam(1) /\ UNCHANGED <<failed, callable, passed, unit>>
  \/ Invoke(1) /\ UNCHANGED <<failed, callable, passed, unit>>
  \/ Return(1) /\ UNCHANGED <<failed, callable, passed, unit>>

Spec == Init /\ [][Next]_vars

\* The same program with the caller keeping the record of failed calls and
\* resolving one reference per call; the caller stops calling once the record
\* holds more than MaxFailures entries.
NextRecorded ==
  \/ \E c \in Ctors : ProvideNew(1, c.out, c) /\ RecordFailure /\ UNCHANGED <<callable, passed, unit>>
  \/ \E c \in Ctors : ProvideSingleton(1, c.out, c) /\ RecordFailure /\ UNCHANGED <<callable, passed, unit>>
  \/ \E items \in SingleRefs :
       Cardinality(failed[1]) <= MaxFailures /\ Resolve(1, items) /\ RecordFailure /\ UNCHANGED <<callable, passed, unit>>
  \/ ResolveItem(1) /\ RecordFailure /\ UNCHANGED <<callable, passed, unit>>
  \/ InjectParam(1) /\ RecordFailure /\ UNCHANGED <<callable, passed, unit>>
  \/ Invoke(1) /\ RecordFailure /\ UNCHANGED <<callable, passed, unit>>
  \/ Return(1) /\ RecordFailure /\ UNCHANGED <<callable, passed, unit>>

SpecRecorded == Init /\ [][NextRecorded]_vars

\* The program of one injector with every kind of input: functions that are
\* no valid provider, values, and arguments of Resolve that are no pointer.
CloneCtors == { Ctor("A", <<"B">>, 1), Ctor("B", <<>>, 1) }
InputCtors == CloneCtors \cup InvalidCtors
ValueLists == UNION { [1..n -> Values] : n \in 1..MaxItems }
\* Resolve does not look past the first argument that is no pointer, so
\* only the last argument of a list is one.
AnyRefLists ==
  { items \in UNION { [1..n -> {Ref(t) : t \in Types} \cup {NonPtr(t) : t \in Types}] :
                        n \in 1..MaxItems } :
      \A k \in 1..(Len(items) - 1) : items[k].ptr }

NextInputs ==
  \/ \E c \in InputCtors : ProvideNew(1, c.out, c) /\ UNCHANGED <<failed, callable, passed, unit>>
  \/ \E c \in InputCtors : ProvideSingleton(1, c.out, c) /\ UNCHANGED <<failed, callable, passed, unit>>
  \/ \E values \in ValueLists : Provide(1, values) /\ UNCHANGED <<failed, callable, passed, unit>>
  \/ \E items \in AnyRefLists : Resolve(1, items) /\ UNCHANGED <<failed, callable, passed, unit>>
  \/ ResolveItem(1) /\ UNCHANGED <<failed, callable, passed, unit>>
  \/ InjectParam(1) /\ UNCHANGED <<failed, callable, passed, unit>>
  \/ Invoke(1) /\ UNCHANGED <<failed, callable, passed, unit>>
  \/ Return(1) /\ UNCHANGED <<failed, callable, passed, unit>>

SpecInputs == Init /\ [][NextInputs]_vars

\* The program of one injector whose Resolve validates its references as
\* the specification words it, called with pointers and nil pointers.
NilRefLists ==
  UNION { [1..n -> {Ref(t) : t \in Types} \cup {NilRef(t) : t \in Types}] : n \in 1..MaxItems }

NextValidated ==
  \/ \E c \in CloneCtors : ProvideNew(1, c.out, c) /\ UNCHANGED <<failed, callable, passed, unit>>
  \/ \E c \in CloneCtors : ProvideSingleton(1, c.out, c) /\ UNCHANGED <<failed, callable, passed, unit>>
  \/ \E items \in NilRefLists : Resolve(1, items) /\ UNCHANGED <<failed, callable, passed, unit>>
  \/ ResolveItemValidated(1) /\ UNCHANGED <<failed, callable, passed, unit>>
  \/ InjectParam(1) /\ UNCHANGED <<failed, callable, passed, unit>>
  \/ Invoke(1) /\ UNCHANGED <<failed, callable, passed, unit>>
  \/ Return(1) /\ UNCHANGED <<failed, callable, passed, unit>>

SpecValidated == Init /\ [][NextValidated]_vars

\* The program with clones: every injector is used by a thread of its own,
\* and the calls on different injectors interleave.
CloneValues == { <<Value("B", 1)>> }

NextClones ==
  \/ \E i, j \in Injectors : Clone(i, j) /\ UNCHANGED <<failed, callable, passed, unit>>
  \/ \E i \in Injectors : \E c \in { d \in CloneCtors : d.params = <<>> } :
       ProvideNew(i, c.out, c) /\ UNCHANGED <<failed, callable, passed, unit>>
  \/ \E i \in Injectors : \E c \in CloneCtors : ProvideSingleton(i, c.out, c) /\ UNCHANGED <<failed, callable, passed, unit>>
  \/ \E i \in Injectors : \E values \in CloneValues : Provide(i, values) /\ UNCHANGED <<failed, callable, passed, unit>>
  \/ \E i \in Injectors : \E items \in SingleRefs : Resolve(i, items) /\ UNCHANGED <<failed, callable, passed, unit>>
  \/ \E i \in Injectors : ResolveItem(i) /\ UNCHANGED <<failed, callable, passed, unit>>
  \/ \E i \in Injectors : InjectParam(i) /\ UNCHANGED <<failed, callable, passed, unit>>
  \/ \E i \in Injectors : Invoke(i) /\ UNCHANGED <<failed, callable, passed, unit>>
  \/ \E i \in Injectors : Return(i) /\ UNCHANGED <<failed, callable, passed, unit>>

SpecClones == Init /\ [][NextClones]_vars

\* The program of the interface tests.  The Go types: the interface I, the
\* struct Impl that implements it through *Impl, and the pointers to them.
GoTypes == {"I", "*I", "Impl", "*Impl", "**Impl"}
Interfaces == {"I"}
PtrTo(T) == "*" \o T
\* typ.Kind() == reflect.Ptr, and typ.Elem() of a pointer type.
IsPtr(T) == \E U \in GoTypes : PtrTo(U) = T
Elem(T) == CHOOSE U \in GoTypes : PtrTo(U) = T

\* A value passed as interface{}: reflect.TypeOf gives its dynamic type.
GoValue(T, isNil) == [type |-> T, nil |-> isNil]
TypeOf(v) == v.type

\* The type token of an interface, (*I)(nil), and the token of a concrete
\* type, &Impl{}.
NilPtrTo(T) == GoValue(PtrTo(T), TRUE)
AddrOfNew(T) == GoValue(PtrTo(T), FALSE)

\* The tokens with the constructor functions registered for them: a function
\* returning the interface, and two returning the implementation.
TokenProviders ==
  { [dep |-> NilPtrTo("I"), p |-> Ctor("I", <<>>, 1)],
    [dep |-> AddrOfNew("Impl"), p |-> Ctor("*Impl", <<>>, 1)],
    [dep |-> AddrOfNew("Impl"), p |-> Ctor("*Impl", <<"I">>, 1)] }

\* The arguments of Resolve: &dep with dep of type I, &d with d of type
\* *Impl, d itself, and a struct.
TokenArgs ==
  { GoValue("*I", FALSE), GoValue("**Impl", FALSE), GoValue("*Impl", FALSE),
    GoValue("Impl", FALSE) }
TokenArgLists == UNION { [1..n -> TokenArgs] : n \in 1..MaxItems }

\* Resolve's view of an argument: whether its type is a pointer, and the
\* type it points to, which is the key of the lookup.
Argument(v) ==
  IF IsPtr(TypeOf(v)) THEN Ref(Elem(TypeOf(v))) ELSE NonPtr(TypeOf(v))

\* New, the registry and the cache being keyed by Go types.
InitTokens ==
  /\ live = {1}
  /\ dependencies = [i \in Injectors |-> [t \in GoTypes |-> NoDep]]
  /\ depHeap = [d \in Injectors \X GoTypes |-> NilDependency]
  /\ instances = [i \in Injectors |-> [t \in GoTypes |-> NoInstance]]
  /\ trace = [i \in Injectors |-> <<>>]
  /\ stack = [i \in Injectors |-> <<>>]
  /\ refs = [i \in Injectors |-> <<>>]
  /\ outcome = [i \in Injectors |-> NoError]
  /\ failed = [i \in Injectors |-> {}]
  /\ calls = [d \in Injectors \X GoTypes |-> 0]
  /\ nextAddr = 1
  /\ callable = [i \in Injectors |-> NoCallable]
  /\ passed = [i \in Injectors |-> <<>>]
  /\ traceTypes = <<>>
  /\ stackItems = <<>>
  /\ returned = Returned("none", "", NoError)
  /\ held = NoHeld

\* ProvideNew and ProvideSingleton from their first statement on: the key is
\* the type of the token.
ProvideNewFor(i, dep, p) == ProvideNew(i, TypeOf(dep), p)
ProvideSingletonFor(i, dep, p) == ProvideSingleton(i, TypeOf(dep), p)

\* Resolve called with Go values.
ResolveValues(i, args) == Resolve(i, [k \in DOMAIN args |-> Argument(args[k])])

NextTokens ==
  \/ \E r \in TokenProviders : ProvideNewFor(1, r.dep, r.p) /\ UNCHANGED <<failed, callable, passed, unit>>
  \/ \E r \in TokenProviders : ProvideSingletonFor(1, r.dep, r.p) /\ UNCHANGED <<failed, callable, passed, unit>>
  \/ \E args \in TokenArgLists : ResolveValues(1, args) /\ UNCHANGED <<failed, callable, passed, unit>>
  \/ ResolveItem(1) /\ UNCHANGED <<failed, callable, passed, unit>>
  \/ InjectParam(1) /\ UNCHANGED <<failed, callable, passed, unit>>
  \/ Invoke(1) /\ UNCHANGED <<failed, callable, passed, unit>>
  \/ Return(1) /\ UNCHANGED <<failed, callable, passed, unit>>

SpecTokens == InitTokens /\ [][NextTokens]_vars

\* The program of one injector whose caller injects functions and calls the
\* Callables it gets, between registrations and Resolve calls.
Func(params) == Ctor("func", params, 1)
Funcs == { Func(<<>>), Func(<<"B">>), Func(<<"A", "B">>) }

NextInject ==
  \/ \E c \in CloneCtors : ProvideNew(1, c.out, c) /\ UNCHANGED <<failed, callable, passed, unit>>
  \/ \E c \in CloneCtors : ProvideSingleton(1, c.out, c) /\ UNCHANGED <<failed, callable, passed, unit>>
  \/ \E items \in SingleRefs : Resolve(1, items) /\ UNCHANGED <<failed, callable, passed, unit>>
  \/ ResolveItem(1) /\ UNCHANGED <<failed, callable, passed, unit>>
  \/ InjectParam(1) /\ UNCHANGED <<failed, callable, passed, unit>>
  \/ Invoke(1) /\ UNCHANGED <<failed, callable, passed, unit>>
  \/ Return(1) /\ UNCHANGED <<failed, callable, passed, unit>>
  \/ \E fn \in Funcs : Inject(1, fn) /\ UNCHANGED <<failed, unit>>
  \/ InjectArg(1) /\ UNCHANGED <<failed, unit>>
  \/ \E fn \in Funcs : InjectDone(1, fn) /\ UNCHANGED <<failed, unit>>
  \/ CallInjected(1) /\ UNCHANGED <<failed, unit>>

SpecInject == Init /\ [][NextInject]_vars

\* The program of one injector with constructors whose graphs reach a type
\* along two paths (A(B, C) with B(C)), name a type twice (A(B, B)), or
\* close a cycle (C(A)); the caller keeps the record of the failed calls.
DiamondCtors ==
  { Ctor("A", <<"B", "C">>, 1), Ctor("A", <<"B", "B">>, 1),
    Ctor("B", <<"C">>, 1), Ctor("B", <<>>, 1),
    Ctor("C", <<>>, 1), Ctor("C", <<"A">>, 1) }

NextDiamond ==
  \/ \E c \in DiamondCtors :
       ProvideNew(1, c.out, c) /\ RecordFailure /\ UNCHANGED <<callable, passed, unit>>
  \/ \E c \in DiamondCtors :
       ProvideSingleton(1, c.out, c) /\ RecordFailure /\ UNCHANGED <<callable, passed, unit>>
  \/ \E items \in SingleRefs :
       /\ Cardinality(failed[1]) < MaxFailures
       /\ Resolve(1, items) /\ RecordFailure /\ UNCHANGED <<callable, passed, unit>>
  \/ ResolveItem(1) /\ RecordFailure /\ UNCHANGED <<callable, passed, unit>>
  \/ InjectParam(1) /\ RecordFailure /\ UNCHANGED <<callable, passed, unit>>
  \/ Invoke(1) /\ RecordFailure /\ UNCHANGED <<callable, passed, unit>>
  \/ Return(1) /\ RecordFailure /\ UNCHANGED <<callable, passed, unit>>

SpecDiamond == Init /\ [][NextDiamond]_vars

\* The program of the tests of Trace and Stack: pushes and pops in any order.
NextTrace ==
  \/ \E typ \in Keys : TracePush(typ) /\ UNCHANGED held
  \/ TracePop /\ UNCHANGED held
  \/ \E item \in Keys : StackPush(item) /\ UNCHANGED held
  \/ StackPop /\ UNCHANGED held
  \/ StackReset /\ UNCHANGED held

SpecTrace == Init /\ [][NextTrace]_vars

\* The caller keeps the error of the last Push that returned one.
KeepError ==
  held' = IF returned'.err # NoError THEN KeptError(returned'.err.chain) ELSE held

\* The program that pushes and pops types on a Trace and keeps the errors
\* Push returns, to print them later.
NextKept ==
  \/ \E typ \in Keys : TracePush(typ) /\ KeepError
  \/ TracePop /\ KeepError

SpecKept == Init /\ [][NextKept]_vars

\* The program of src/katana.go with one injector: providers that may
\* return an error whenever they are called.
NextKatana ==
  \/ \E c \in CloneCtors : KatanaProvideNew(1, c.out, c) /\ UNCHANGED <<failed, callable, passed, unit>>
  \/ \E c \in CloneCtors : KatanaProvideSingleton(1, c.out, c) /\ UNCHANGED <<failed, callable, passed, unit>>
  \/ \E items \in RefLists : KatanaResolve(1, items) /\ UNCHANGED <<failed, callable, passed, unit>>
  \/ KatanaResolveItem(1) /\ UNCHANGED <<failed, callable, passed, unit>>
  \/ KatanaProviderResolve(1) /\ UNCHANGED <<failed, callable, passed, unit>>
  \/ \E err \in {NoError} \cup {ErrProvider(t) : t \in Types} :
       KatanaProviderReturns(1, err) /\ UNCHANGED <<failed, callable, passed, unit>>
  \/ KatanaReturn(1) /\ UNCHANGED <<failed, callable, passed, unit>>

SpecKatana == Init /\ [][NextKatana]_vars

\* The program whose constructors clone the injector that resolves them:
\* every clone is taken while a Resolve is in progress on the original, and
\* is then used like any injector.
NextCloning ==
  \/ \E i, j \in Injectors : CloneInCall(i, j) /\ UNCHANGED <<failed, callable, passed, unit>>
  \/ \E i \in Injectors : \E c \in CloneCtors : ProvideNew(i, c.out, c) /\ UNCHANGED <<failed, callable, passed, unit>>
  \/ \E i \in Injectors : \E c \in CloneCtors : ProvideSingleton(i, c.out, c) /\ UNCHANGED <<failed, callable, passed, unit>>
  \/ \E i \in Injectors : \E items \in SingleRefs : Resolve(i, items) /\ UNCHANGED <<failed, callable, passed, unit>>
  \/ \E i \in Injectors : ResolveItem(i) /\ UNCHANGED <<failed, callable, passed, unit>>
  \/ \E i \in Injectors : InjectParam(i) /\ UNCHANGED <<failed, callable, passed, unit>>
  \/ \E i \in Injectors : Invoke(i) /\ UNCHANGED <<failed, callable, passed, unit>>
  \/ \E i \in Injectors : Return(i) /\ UNCHANGED <<failed, callable, passed, unit>>

SpecCloning == Init /\ [][NextCloning]_vars

\* The program of an injector and a clone with a provider of its own, as in
\* the HTTP example of the Readme: the original registers the singleton
\* A(B) and, for itself, B(C, A) and C(), which closes a cycle through A; the
\* clone registers B().  The calls on the two injectors interleave.
ScopedCtors == { Ctor("C", <<>>, 1), Ctor("B", <<"C", "A">>, 1) }

NextScoped ==
  \/ \E i, j \in Injectors : Clone(i, j) /\ UNCHANGED <<failed, callable, passed, unit>>
  \/ ProvideSingleton(1, "A", Ctor("A", <<"B">>, 1)) /\ UNCHANGED <<failed, callable, passed, unit>>
  \/ \E c \in ScopedCtors : ProvideNew(1, c.out, c) /\ UNCHANGED <<failed, callable, passed, unit>>
  \/ ProvideNew(2, "B", Ctor("B", <<>>, 1)) /\ UNCHANGED <<failed, callable, passed, unit>>
  \/ \E i \in Injectors : \E items \in SingleRefs : Resolve(i, items) /\ UNCHANGED <<failed, callable, passed, unit>>
  \/ \E i \in Injectors : ResolveItem(i) /\ UNCHANGED <<failed, callable, passed, unit>>
  \/ \E i \in Injectors : InjectParam(i) /\ UNCHANGED <<failed, callable, passed, unit>>
  \/ \E i \in Injectors : Invoke(i) /\ UNCHANGED <<failed, callable, passed, unit>>
  \/ \E i \in Injectors : Return(i) /\ UNCHANGED <<failed, callable, passed, unit>>

SpecScoped == Init /\ [][NextScoped]_vars

\* ------------------------------------------------------------ properties
Range(seq) == { seq[k] : k \in DOMAIN seq }

RECURSIVE Sub(_)
\* An instance together with every instance stored in it, at any depth.
Sub(x) == {x} \cup UNION { Sub(x.args[k]) : k \in DOMAIN x.args }

\* The locations written by the top-level Resolve in progress or, when the
\* injector is idle, by the last one.
Locations(i) == IF Idle(i) THEN refs[i] ELSE stack[i][1].refs

\* Every instance a caller of injector i can observe: in a location, in an
\* argument list being built, in the cache, or stored in one of those.
Held(i) ==
  UNION { Sub(x) :
    x \in Range(refs[i])
          \cup UNION { Range(stack[i][k].refs) \cup Range(stack[i][k].deps) : k \in DOMAIN stack[i] }
          \cup { instances[i][t] : t \in { u \in Types : instances[i][u] # NoInstance } } }

Registered(i, t) == dependencies[i][t] # NoDep
Policy(i, t) == depHeap[dependencies[i][t]].Type
ProviderOf(i, t) == depHeap[dependencies[i][t]].Provider
IsSingleton(i, t) == Registered(i, t) /\ Policy(i, t) = TypeSingleton
IsNew(i, t) == Registered(i, t) /\ Policy(i, t) = TypeNewInstance

\* The resolutions whose result is still observable: each slot of a
\* location list or of an argument list holds the result of one resolution.
\* A slot is named by the object holding it (0 for a call in progress or a
\* caller's location), the list, and the position in the list.
Slot(holder, list, pos, inst) == [holder |-> holder, list |-> list, pos |-> pos, inst |-> inst]

Resolutions(i) ==
  { Slot(0, 0, k, refs[i][k]) : k \in DOMAIN refs[i] }
  \cup UNION { { Slot(0, 2 * n, k, stack[i][n].refs[k]) : k \in DOMAIN stack[i][n].refs }
               \cup { Slot(0, 2 * n + 1, k, stack[i][n].deps[k]) : k \in DOMAIN stack[i][n].deps }
               : n \in DOMAIN stack[i] }
  \cup UNION { { Slot(x.addr, 0, k, x.args[k]) : k \in DOMAIN x.args } : x \in Held(i) }

\* C1: a type registered as a singleton has its constructor invoked at most
\* once, and every resolution of it, top-level or as a constructor
\* parameter, yields the one cached instance.
C1_SingletonOnce ==
  \A i \in live : \A t \in Types :
    IsSingleton(i, t) =>
      /\ calls[dependencies[i][t]] <= 1
      /\ \A x \in Held(i) : x.typ = t => x = instances[i][t]

\* C1 witness: one Resolve wrote a new A and a singleton B, and the B held
\* by the A is the B written to the caller.
C1_Witness ==
  /\ Idle(1) /\ outcome[1] = Ok /\ Len(refs[1]) = 2
  /\ IsSingleton(1, "B") /\ IsNew(1, "A")
  /\ refs[1][1].typ = "A" /\ refs[1][2].typ = "B"
  /\ refs[1][1].args[1] = refs[1][2]
  /\ calls[dependencies[1]["B"]] = 1

\* C2: a type registered with the new instance policy never has a cache
\* entry, and no two resolutions of it yield the same instance.
C2_NewAlwaysFresh ==
  \A i \in live : \A t \in Types :
    IsNew(i, t) =>
      /\ instances[i][t] = NoInstance
      /\ \A r1, r2 \in Resolutions(i) :
           (r1.inst.typ = t /\ r2.inst.typ = t
              /\ <<r1.holder, r1.list, r1.pos>> # <<r2.holder, r2.list, r2.pos>>)
             => r1.inst.addr # r2.inst.addr

\* C2 witness: one Resolve of two references of a new instance type ended
\* with two different instances.
C2_Witness ==
  /\ Idle(1) /\ outcome[1] = Ok /\ Len(refs[1]) = 2
  /\ IsNew(1, "B")
  /\ refs[1][1].typ = "B" /\ refs[1][2].typ = "B"
  /\ refs[1][1].addr # refs[1][2].addr

\* The dependency graph of the registry of injector i.
ParamsOf(i, t) == IF Registered(i, t) THEN Range(ProviderOf(i, t).params) ELSE {}

RECURSIVE Closure(_, _)
\* The types in S and every type they transitively require.
Closure(i, S) ==
  LET S2 == S \cup UNION { ParamsOf(i, t) : t \in S }
  IN IF S2 = S THEN S ELSE Closure(i, S2)

Requires(i, t) == Closure(i, ParamsOf(i, t))
Complete(i, S) == \A t \in Closure(i, S) : Registered(i, t)
Cyclic(i, S) == \E t \in Closure(i, S) : t \in Requires(i, t)

\* The step that ends the top-level Resolve in progress on injector i.
Ends(i) == stack[i] # <<>> /\ stack'[i] = <<>>
Requested(i) == { stack[i][1].items[k].typ : k \in DOMAIN stack[i][1].items }

\* The types whose resolution is in progress, outermost first.
Active(i) == [k \in DOMAIN stack[i] |-> Item(stack[i][k]).typ]

IsSuffix(s, t) == Len(s) <= Len(t) /\ s = SubSeq(t, Len(t) - Len(s) + 1, Len(t))

\* C3: when every type reachable from the requested types has a provider
\* and a cycle is reachable from them, Resolve ends with
\* ErrCyclicDependency; in particular it does not run out of stack.
C3_CycleReported ==
  [][\A i \in Injectors :
       (Ends(i) /\ Complete(i, Requested(i)) /\ Cyclic(i, Requested(i)))
         => outcome'[i].err = "ErrCyclicDependency"]_vars

\* C4: when Resolve of type A fails with ErrCyclicDependency on re-entering
\* A, the trace holding no type of an earlier call, the chain of the error is
\* the types in resolution order from A to the first re-entry of A.
C4_ChainFromRequested ==
  [][\A i \in Injectors :
       (Ends(i) /\ outcome'[i].err = "ErrCyclicDependency") =>
         LET act == Active(i)
             n == Len(act)
             again == { k \in 2..n : act[k] = act[1] }
         IN (again # {} /\ IsSuffix(trace[i], SubSeq(act, 1, n - 1))) =>
              outcome'[i].chain =
                SubSeq(act, 1, CHOOSE k \in again : \A m \in again : k <= m)]_vars

\* C5: the trace of an injector with no Resolve in progress is empty.
C5_TraceEmptyAtRest ==
  \A i \in live : Idle(i) => trace[i] = <<>>

\* C6: once a Resolve has failed with ErrCyclicDependency, every later
\* Resolve of an acyclic type whose providers are all registered succeeds.
C6_ResolveAfterCycle ==
  [][\A i \in Injectors :
       (/\ Ends(i)
        /\ \E f \in failed[i] : f.err = "ErrCyclicDependency"
        /\ Complete(i, Requested(i)) /\ ~Cyclic(i, Requested(i)))
         => outcome'[i] = Ok]_vars

\* C7: once Resolve of T has failed because a dependency of T had no
\* provider, a Resolve of T made after the missing providers are registered
\* succeeds.
C7_ResolveAfterMissing ==
  [][\A i \in Injectors :
       (/\ Ends(i)
        /\ \E f \in failed[i] :
             f.err = "ErrNoSuchProvider" /\ f.typ \in Requested(i) /\ f.at # f.typ
        /\ Complete(i, Requested(i)) /\ ~Cyclic(i, Requested(i)))
         => outcome'[i] = Ok]_vars

\* C8: two distinct instances of a new instance type never share the
\* instance passed for a parameter of a new instance type.
C8_NewArgsResolvedAgain ==
  \A i \in live : \A x, y \in Held(i) :
    (x.typ = y.typ /\ x.addr # y.addr /\ IsNew(i, x.typ)) =>
      \A k \in DOMAIN x.args :
        (k \in DOMAIN y.args /\ IsNew(i, x.args[k].typ)) => x.args[k].addr # y.args[k].addr

\* C8 witness: one Resolve of two references of the new instance type A,
\* whose constructor takes the new instance type B, ended with two As
\* holding two Bs.
C8_Witness ==
  /\ Idle(1) /\ outcome[1] = Ok /\ Len(refs[1]) = 2
  /\ IsNew(1, "A") /\ IsNew(1, "B")
  /\ refs[1][1].typ = "A" /\ refs[1][2].typ = "A"
  /\ refs[1][1].addr # refs[1][2].addr
  /\ refs[1][1].args[1].typ = "B" /\ refs[1][2].args[1].typ = "B"
  /\ refs[1][1].args[1].addr # refs[1][2].args[1].addr

\* C9: every constructed instance holds one argument per parameter of its
\* constructor, the k-th of the k-th parameter's type, each resolved before
\* the constructor ran: the cached instance for a singleton parameter, and
\* for new instance parameters instances constructed in declaration order.
C9_ArgsMatchParams ==
  \A i \in live : \A x \in Held(i) :
    Registered(i, x.typ) =>
      LET p == ProviderOf(i, x.typ) IN
      /\ Len(x.args) = Len(p.params)
      /\ \A k \in DOMAIN x.args :
           /\ x.args[k].typ = p.params[k]
           /\ x.args[k].addr < x.addr
           /\ IsSingleton(i, p.params[k]) => x.args[k] = instances[i][p.params[k]]
           /\ \A j \in 1..(k - 1) :
                (IsNew(i, p.params[j]) /\ IsNew(i, p.params[k]))
                  => x.args[j].addr < x.args[k].addr

\* C9 witness: an A built by the two-parameter constructor A(B, C) was
\* resolved, B being a singleton and C a new instance type.
C9_Witness ==
  /\ Idle(1) /\ outcome[1] = Ok
  /\ IsSingleton(1, "B") /\ IsNew(1, "C")
  /\ \E k \in DOMAIN refs[1] :
       /\ refs[1][k].typ = "A" /\ Len(refs[1][k].args) = 2
       /\ refs[1][k].args[1] = instances[1]["B"]
       /\ refs[1][k].args[2].typ = "C"

\* The top frame of injector i is about to resolve a reference of a
\* singleton type that is cached.
AtCachedSingleton(i) ==
  /\ ~Idle(i)
  /\ Top(i).pc = "item" /\ Len(Top(i).refs) < Len(Top(i).items)
  /\ Item(Top(i)).ptr
  /\ IsSingleton(i, Item(Top(i)).typ)
  /\ instances[i][Item(Top(i)).typ] # NoInstance

\* C10: resolving a cached singleton writes the cached instance into the
\* reference and changes nothing else: no trace push, no constructor call,
\* no change of the cache or of the provider entries.
C10_CacheHitOnlyWrites ==
  [][\A i \in Injectors :
       (AtCachedSingleton(i) /\ stack'[i] # stack[i]) =>
         /\ stack'[i] = [stack[i] EXCEPT ![Len(stack[i])].refs =
                           Append(@, instances[i][Item(Top(i)).typ])]
         /\ trace' = trace /\ calls' = calls /\ nextAddr' = nextAddr
         /\ instances' = instances /\ depHeap' = depHeap
         /\ dependencies' = dependencies]_vars

\* C10 witness: the singleton A, which holds an instance of the new
\* instance type B, was resolved twice by one Resolve, the second time from
\* the cache, its constructor and the constructor of B having run once.
C10_Witness ==
  /\ Idle(1) /\ outcome[1] = Ok /\ Len(refs[1]) = 2
  /\ IsSingleton(1, "A") /\ IsNew(1, "B")
  /\ refs[1][1].typ = "A" /\ refs[1][2] = refs[1][1]
  /\ refs[1][1].args[1].typ = "B"
  /\ calls[dependencies[1]["A"]] = 1 /\ calls[dependencies[1]["B"]] = 1
  /\ trace[1] = <<>>

\* The position in values of the first value Provide cannot register on
\* injector i: its type has an entry, or an earlier value of the list has
\* the same type.  0 when there is none.
FirstTaken(i, values) ==
  LET taken == { k \in DOMAIN values :
                   \/ Registered(i, values[k].typ)
                   \/ \E m \in 1..(k - 1) : values[m].typ = values[k].typ }
  IN IF taken = {} THEN 0 ELSE CHOOSE k \in taken : \A m \in taken : k <= m

\* C11: a call of ProvideNew, ProvideSingleton or Provide for a key that has
\* an entry on the injector ends with ErrProviderAlreadyRegistered naming the
\* key, whatever the policies of the entry and of the call, and no step
\* changes the policy or the constructor of an entry.
C11_AlreadyRegistered ==
  [][\A i \in Injectors :
       /\ (CanCall(i) /\ stack'[i] = <<>>) =>
            /\ \A c \in InputCtors :
                 (/\ Registered(i, c.out)
                  /\ (ProvideNew(i, c.out, c) \/ ProvideSingleton(i, c.out, c)))
                   => outcome'[i] = ErrProviderAlreadyRegistered(c.out)
            /\ \A values \in ValueLists :
                 LET k == FirstTaken(i, values) IN
                 (k # 0 /\ Provide(i, values))
                   => outcome'[i] = ErrProviderAlreadyRegistered(values[k].typ)
       /\ \A t \in Types :
            Registered(i, t) =>
              /\ dependencies'[i][t] = dependencies[i][t]
              /\ depHeap'[dependencies[i][t]].Type = Policy(i, t)
              /\ depHeap'[dependencies[i][t]].Provider = ProviderOf(i, t)]_vars

\* C11 witness: B has the entry Provide made for a value, and a later
\* registration ended with ErrProviderAlreadyRegistered for B.
C11_Witness ==
  /\ Idle(1) /\ outcome[1] = ErrProviderAlreadyRegistered("B")
  /\ IsSingleton(1, "B") /\ ProviderOf(1, "B") = ValueProvider(Value("B", 1))

\* C12: a call of ProvideNew or ProvideSingleton with a function whose
\* number of return values is not one, for a key without entry, ends with
\* ErrInvalidProvider and leaves the key without entry; no entry ever holds
\* such a function.
C12_InvalidProvider ==
  [][\A i \in Injectors :
       /\ (CanCall(i) /\ stack'[i] = <<>>) =>
            \A c \in InvalidCtors :
              (/\ ~Registered(i, c.out)
               /\ (ProvideNew(i, c.out, c) \/ ProvideSingleton(i, c.out, c)))
                => /\ outcome'[i] = ErrInvalidProvider(c.out)
                   /\ dependencies'[i][c.out] = NoDep
       /\ \A t \in Types :
            dependencies'[i][t] # NoDep => depHeap'[dependencies'[i][t]].Provider.nout = 1]_vars

\* C12 witness: a registration for C ended with ErrInvalidProvider and C has
\* no entry.
C12_Witness ==
  /\ Idle(1) /\ outcome[1] = ErrInvalidProvider("C") /\ ~Registered(1, "C")

\* The top frame of injector i is about to resolve a reference.
AtItem(i) ==
  ~Idle(i) /\ Top(i).pc = "item" /\ Len(Top(i).refs) < Len(Top(i).items)

\* C13: the iteration of Resolve that meets a pointer to a type without
\* provider, at the top level or for a constructor parameter at any depth,
\* ends the whole call with ErrNoSuchProvider naming that type; the location
\* of the reference the caller asked for is not written, and no constructor
\* is invoked and no instance cached.
C13_MissingProvider ==
  [][\A i \in Injectors :
       (/\ AtItem(i) /\ Item(Top(i)).ptr /\ ~Registered(i, Item(Top(i)).typ)
        /\ stack'[i] # stack[i])
         => /\ outcome'[i] = ErrNoSuchProvider(Item(Top(i)).typ)
            /\ stack'[i] = <<>>
            /\ refs'[i] = stack[i][1].refs
            /\ Len(refs'[i]) < Len(stack[i][1].items)
            /\ calls' = calls /\ nextAddr' = nextAddr /\ instances' = instances]_vars

\* C13 witness: a Resolve ended with ErrNoSuchProvider for B two calls
\* below the type requested (the types C and A were under resolution) and
\* no constructor has run.
C13_Witness ==
  /\ Idle(1) /\ outcome[1] = ErrNoSuchProvider("B") /\ ~Registered(1, "B")
  /\ trace[1] = <<"C", "A">> /\ refs[1] = <<>>
  /\ \A d \in DepIds : calls[d] = 0

\* C14: the iteration of Resolve that meets an argument that is no pointer
\* ends the call with ErrNoSuchPtr, whether or not the type has a provider,
\* and changes neither the registry, nor the cache, nor the trace.
C14_NotAPointer ==
  [][\A i \in Injectors :
       (AtItem(i) /\ ~Item(Top(i)).ptr /\ stack'[i] # stack[i])
         => /\ outcome'[i] = ErrNoSuchPtr(Item(Top(i)).typ)
            /\ stack'[i] = <<>>
            /\ dependencies' = dependencies /\ depHeap' = depHeap
            /\ instances' = instances /\ trace' = trace
            /\ calls' = calls]_vars

\* C14 witness: Resolve(&b, c), c no pointer and its type without provider,
\* ended with ErrNoSuchPtr after the singleton B was resolved and cached.
C14_Witness ==
  /\ Idle(1) /\ outcome[1] = ErrNoSuchPtr("C") /\ ~Registered(1, "C")
  /\ Len(refs[1]) = 1 /\ refs[1][1] = instances[1]["B"]

\* The locations of the first k references of the top-level Resolve on
\* injector i hold instances of the types asked for, in the order given.
WrittenInOrder(items, written) ==
  /\ Len(written) <= Len(items)
  /\ \A k \in DOMAIN written : written[k].typ = items[k].typ

\* C16: a top-level Resolve writes its references left to right: the
\* locations written are those of the first references, each written once
\* and keeping its value; a constructor is invoked only for the reference
\* being resolved and the types it requires; and a Resolve that fails leaves
\* the locations written so far as they are and the others unwritten.
C16_BatchLeftToRight ==
  [][\A i \in Injectors :
       ~Idle(i) =>
         LET items == stack[i][1].items
             written == stack[i][1].refs
         IN
         /\ WrittenInOrder(items, written)
         /\ ~Ends(i) =>
              \/ stack'[i][1].refs = written
              \/ /\ Len(stack'[i][1].refs) = Len(written) + 1
                 /\ SubSeq(stack'[i][1].refs, 1, Len(written)) = written
         /\ \A t \in Types :
              (Registered(i, t) /\ calls'[dependencies[i][t]] # calls[dependencies[i][t]])
                => t \in Closure(i, {items[Len(written) + 1].typ})
         /\ Ends(i) =>
              /\ refs'[i] = written
              /\ calls' = calls
              /\ outcome'[i] = Ok <=> Len(written) = Len(items)]_vars

\* C16 witness: a Resolve of two references failed at the second one, the
\* first location holding the instance written to it.
C16_Witness ==
  /\ Idle(1) /\ outcome[1] = ErrNoSuchProvider("C")
  /\ Len(refs[1]) = 1 /\ refs[1][1].typ = "A" /\ refs[1][1].addr > 0

C18_RegistriesIsolated ==
  [][\A i \in live :
       /\ dependencies'[i] # dependencies[i] =>
            /\ Idle(i) /\ outcome'[i] = Ok
            /\ \A j \in live \ {i} : dependencies'[j] = dependencies[j]
       /\ (/\ AtItem(i) /\ Item(Top(i)).ptr /\ ~Registered(i, Item(Top(i)).typ)
           /\ stack'[i] # stack[i])
            => outcome'[i] = ErrNoSuchProvider(Item(Top(i)).typ)]_vars

\* C18 witness: after the cloning A was registered on the original and B on
\* the clone; Resolve of B on the original and Resolve of A on the clone both
\* ended with ErrNoSuchProvider.
C18_Witness ==
  /\ 2 \in live /\ Idle(1) /\ Idle(2)
  /\ dependencies[1]["A"] = <<1, "A">> /\ ~Registered(2, "A")
  /\ dependencies[2]["B"] = <<2, "B">> /\ ~Registered(1, "B")
  /\ outcome[1] = ErrNoSuchProvider("B")
  /\ outcome[2] = ErrNoSuchProvider("A")

\* C19: the instances of a singleton type observed through two injectors
\* that hold the same entry for it (an injector and its clones) are one and
\* the same instance.
C19_SingletonAcrossClones ==
  \A i, j \in live : \A t \in Types :
    (IsSingleton(i, t) /\ dependencies[i][t] = dependencies[j][t]) =>
      \A x \in Held(i) : \A y \in Held(j) : (x.typ = t /\ y.typ = t) => x = y

\* C20: a value provided on a clone, and on no other injector, is not
\* observable through any other injector: no location, argument list or
\* cache of another injector holds it, nor an instance that holds it.
C20_ValueStaysOnClone ==
  \A j \in live \ {1} : \A t \in Types :
    LET d == dependencies[j][t]
        v == depHeap[d].Provider.val
    IN (/\ d = <<j, t>> /\ v # NoInstance
        /\ \A i \in live \ {j} : \A u \in Types :
             Registered(i, u) => ProviderOf(i, u).val # v)
         => \A i \in live \ {j} : v \notin Held(i)

\* The entry ProvideSingleton makes for the function Provide wraps around v.
ValueEntry(v) ==
  [Type |-> TypeSingleton, Provider |-> ValueProvider(v), InjectedProvider |-> NilCallable]

C22_InterfaceProviderFound ==
  [][\A i \in Injectors : \A T \in Interfaces :
       (/\ AtItem(i) /\ Item(Top(i)) = Argument(GoValue(PtrTo(T), FALSE))
        /\ Registered(i, TypeOf(NilPtrTo(T)))
        /\ stack'[i] # stack[i])
         => outcome'[i].err # "ErrNoSuchProvider"]_vars

\* C23: the Callable of an injector changes only when an Inject returns, and
\* then it holds one argument per parameter of the function, of the
\* parameter's type; a call of the Callable passes the arguments it holds,
\* the same ones as every earlier call, and changes nothing else: nothing is
\* resolved, no constructor runs, and registry, cache and trace stay as they
\* are.
C23_InjectedClosure ==
  [][\A i \in Injectors :
       /\ callable'[i] # callable[i] =>
            /\ ~Idle(i) /\ stack'[i] = <<>> /\ outcome'[i] = Ok
            /\ Len(callable'[i].deps) = Len(callable'[i].fn.params)
            /\ \A k \in DOMAIN callable'[i].deps :
                 callable'[i].deps[k].typ = callable'[i].fn.params[k]
            /\ calls' = calls /\ nextAddr' = nextAddr
       /\ Len(passed'[i]) > Len(passed[i]) =>
            /\ passed'[i] = Append(passed[i], callable[i].deps)
            /\ \A k \in DOMAIN passed'[i] : passed'[i][k] = passed'[i][1]
            /\ callable' = callable
            /\ dependencies' = dependencies /\ depHeap' = depHeap
            /\ instances' = instances /\ trace' = trace
            /\ stack' = stack /\ calls' = calls /\ nextAddr' = nextAddr]_vars

\* C23 witness: a function of the new instance type B was injected, B was
\* resolved again afterwards, and the Callable was called twice with the B
\* of Inject time.
C23_Witness ==
  /\ Idle(1) /\ callable[1].set /\ callable[1].fn = Func(<<"B">>)
  /\ IsNew(1, "B")
  /\ Len(passed[1]) = 2 /\ passed[1][1] = passed[1][2]
  /\ Len(refs[1]) = 1 /\ refs[1][1].typ = "B"
  /\ refs[1][1].addr > passed[1][2][1].addr
  /\ calls[dependencies[1]["B"]] = 2

\* The types whose resolution on injector i has started (Trace.Add passed)
\* and has not finished, outermost first: every call below the top one is
\* waiting for a parameter of its type, and the top one is between two
\* references when its pc is "item".
Started(i) ==
  LET n == Len(stack[i])
      m == IF n > 0 /\ Top(i).pc = "item" THEN n - 1 ELSE n
  IN [k \in 1..m |-> Item(stack[i][k]).typ]

\* C24: in every state the trace of an injector is the sequence, outermost
\* first, of the types whose resolution has started and not finished; a type
\* stays in it while the parameters of its constructor are resolved one
\* after the other.
C24_TraceIsActiveTypes ==
  \A i \in live : trace[i] = Started(i)

\* C25: on an injector none of whose Resolve calls has failed, a Resolve of
\* a type from which every reachable type has a provider and no cycle is
\* reachable ends with success; no step of it reports ErrCyclicDependency,
\* whether a type is reached along two paths or twice by one constructor.
C25_AcyclicResolves ==
  [][\A i \in Injectors :
       (/\ Ends(i) /\ failed[i] = {}
        /\ Complete(i, Requested(i)) /\ ~Cyclic(i, Requested(i)))
         => outcome'[i] = Ok]_vars

\* C25 witness: with A(B, C), B(C) and C() registered as new instance
\* providers, Resolve of A succeeded on an injector without failed call: the
\* A holds a B holding one C, and another C.
C25_Witness ==
  /\ Idle(1) /\ outcome[1] = Ok /\ failed[1] = {}
  /\ IsNew(1, "A") /\ IsNew(1, "B") /\ IsNew(1, "C")
  /\ Len(refs[1]) = 1 /\ refs[1][1].typ = "A" /\ Len(refs[1][1].args) = 2
  /\ refs[1][1].args[1].typ = "B" /\ refs[1][1].args[2].typ = "C"
  /\ Len(refs[1][1].args[1].args) = 1
  /\ refs[1][1].args[1].args[1].typ = "C"
  /\ refs[1][1].args[1].args[1].addr # refs[1][1].args[2].addr

\* No element occurs twice in the sequence.
NoDup(seq) == \A k, m \in DOMAIN seq : seq[k] = seq[m] => k = m

\* C26 as stated: no type appears twice in a trace, in any state, also
\* after a push that reported a cycle.
C26_NoTypeTwice ==
  /\ NoDup(traceTypes)
  /\ \A i \in live : NoDup(trace[i])

\* C26 amended: a call on a trace without repeated type that reports no
\* cycle leaves it without repeated type; the Push that reports a cycle
\* leaves the type it was given twice in the trace, and no other type twice.
C26_NoTypeTwiceUnlessReported ==
  [][NoDup(traceTypes) =>
       IF returned'.err = NoError
         THEN NoDup(traceTypes')
         ELSE /\ returned'.op = "Trace.Push"
              /\ Len(traceTypes') = Len(traceTypes) + 1
              /\ Contains(traceTypes, traceTypes'[Len(traceTypes')])
              /\ NoDup(SubSeq(traceTypes', 1, Len(traceTypes)))]_vars

\* C26 witness: the Push of 1 on the trace 1, 2 reported a cycle and left
\* 1, 2, 1.
C26_Witness ==
  /\ traceTypes = <<"1", "2", "1">>
  /\ returned.op = "Trace.Push" /\ returned.err.err = "ErrCyclicDependency"

\* C27: Push appends the type whether or not the trace holds it, so the
\* trace is one entry longer after every Push; when the trace held the type
\* Push returns ErrCyclicDependency, and nothing otherwise; the chain of the
\* error is the whole trace, oldest entry first, the repeated type last.
C27_PushAppends ==
  [][\A typ \in Keys :
       (returned'.op = "Trace.Push" /\ TracePush(typ)) =>
         /\ traceTypes' = Append(traceTypes, typ)
         /\ Len(traceTypes') = Len(traceTypes) + 1
         /\ returned'.err # NoError <=> Contains(traceTypes, typ)
         /\ Contains(traceTypes, typ) =>
              /\ returned'.err.err = "ErrCyclicDependency"
              /\ returned'.err.chain = traceTypes'
              /\ returned'.err.chain[Len(returned'.err.chain)] = typ
              /\ SubSeq(returned'.err.chain, 1, Len(traceTypes)) = traceTypes]_vars

\* C27 witness: after the pushes of 1, 2, 3 the Push of 2 reported the chain
\* 1 -> 2 -> 3 -> 2, which is the trace.
C27_Witness ==
  /\ traceTypes = <<"1", "2", "3", "2">>
  /\ returned = Returned("Trace.Push", "", ErrCyclicDependency(<<"1", "2", "3", "2">>))

\* C28 as stated: the chain of an ErrCyclicDependency starts at the first
\* occurrence of the repeated type and ends with the repeated type.
C28_ChainFromFirstOccurrence ==
  (returned.op = "Trace.Push" /\ returned.err # NoError) =>
    LET typ == traceTypes[Len(traceTypes)] IN
    returned.err.chain = SubSeq(traceTypes, First(traceTypes, typ), Len(traceTypes))

\* C28 amended: the chain of an ErrCyclicDependency ends with the trace
\* from the first occurrence of the repeated type through the repeated
\* type, and starts at the oldest entry of the trace: the types pushed
\* before the first occurrence are part of it.
C28_ChainHoldsCycle ==
  (returned.op = "Trace.Push" /\ returned.err # NoError) =>
    LET typ == traceTypes[Len(traceTypes)]
        chain == returned.err.chain
    IN /\ chain[Len(chain)] = typ
       /\ IsSuffix(SubSeq(traceTypes, First(traceTypes, typ), Len(traceTypes)), chain)
       /\ Len(chain) = Len(traceTypes)
       /\ \A k \in 1..(First(traceTypes, typ) - 1) : chain[k] = traceTypes[k]

\* C28 witness: with 3, 1, 2 on the trace the Push of 1 reported
\* 3 -> 1 -> 2 -> 1.
C28_Witness ==
  /\ traceTypes = <<"3", "1", "2", "1">>
  /\ returned.err = ErrCyclicDependency(<<"3", "1", "2", "1">>)

\* C29: Pop on a Trace and on a Stack returns the item pushed last and not
\* yet popped and removes it; Pop after Push(x) returns x and leaves the
\* contents as they were before the Push; Pop on an empty Trace or Stack
\* returns the empty string and leaves it empty.
C29_PopUndoesPush ==
  [][/\ \A x \in Keys :
          /\ TracePopped(TracePushed(traceTypes, x).Types) = [Types |-> traceTypes, item |-> x]
          /\ StackPopped(StackPushed(stackItems, x)) = [items |-> stackItems, item |-> x]
     /\ (returned'.op = "Trace.Pop" /\ TracePop) =>
          IF traceTypes = <<>>
            THEN returned'.item = "" /\ traceTypes' = <<>>
            ELSE /\ returned'.item = traceTypes[Len(traceTypes)]
                 /\ traceTypes' \o <<returned'.item>> = traceTypes
     /\ (returned'.op = "Stack.Pop" /\ StackPop) =>
          IF stackItems = <<>>
            THEN returned'.item = "" /\ stackItems' = <<>>
            ELSE /\ returned'.item = stackItems[Len(stackItems)]
                 /\ stackItems' \o <<returned'.item>> = stackItems]_vars

\* C29 witness: the last Pop of the stack 1, 2, 3 returned 3 and left 1, 2,
\* while the trace is empty.
C29_Witness ==
  /\ returned = Returned("Stack.Pop", "3", NoError)
  /\ stackItems = <<"1", "2">>
  /\ traceTypes = <<>>

\* The provider of the type the top frame of injector i resolves has the
\* instances it depends on and is about to return.
AtProviderReturn(i) ==
  /\ ~Idle(i) /\ Top(i).pc = "provider"
  /\ Len(Top(i).deps) = Len(ProviderOf(i, Item(Top(i)).typ).params)

\* C30: when a provider returns an error, at the top level or below other
\* providers, the top-level Resolve returns that error; the location of the
\* reference being resolved is not written, no instance is built, and
\* nothing is cached, neither for the type nor for a type that depends on
\* it; and a Resolve that meets a singleton type whose provider has been
\* called and that has no cached instance calls the provider again.
C30_ProviderError ==
  [][\A i \in Injectors :
       /\ AtProviderReturn(i) =>
            LET t == Item(Top(i)).typ IN
            KatanaProviderReturns(i, ErrProvider(t)) =>
              /\ outcome'[i] = ErrProvider(t)
              /\ stack'[i] = <<>>
              /\ refs'[i] = stack[i][1].refs
              /\ Len(refs'[i]) < Len(stack[i][1].items)
              /\ nextAddr' = nextAddr
              /\ instances' = instances
              /\ \A k \in DOMAIN stack[i] : instances'[i][Item(stack[i][k]).typ] = NoInstance
       /\ (/\ AtItem(i) /\ Item(Top(i)).ptr /\ IsSingleton(i, Item(Top(i)).typ)
           /\ calls[dependencies[i][Item(Top(i)).typ]] > 0
           /\ instances[i][Item(Top(i)).typ] = NoInstance
           /\ ~Contains(trace[i], Item(Top(i)).typ)
           /\ stack'[i] # stack[i])
            => /\ stack'[i][Len(stack'[i])].pc = "provider"
               /\ calls'[dependencies[i][Item(Top(i)).typ]]
                    = calls[dependencies[i][Item(Top(i)).typ]] + 1]_vars

\* C30 witness: A and B are singletons, A depending on B; the provider of B
\* has returned an error in two Resolve calls for A, the second of which has
\* just ended with that error; nothing is cached and no location written.
C30_Witness ==
  /\ Idle(1) /\ outcome[1] = ErrProvider("B")
  /\ IsSingleton(1, "A") /\ IsSingleton(1, "B")
  /\ calls[dependencies[1]["A"]] = 2 /\ calls[dependencies[1]["B"]] = 2
  /\ instances[1]["A"] = NoInstance /\ instances[1]["B"] = NoInstance
  /\ refs[1] = <<>> /\ nextAddr = 1

\* C31: the step that creates a clone leaves the registry, the cache and
\* the trace of every injector there was as they are, also when a Resolve is
\* in progress on the original and its trace holds types; the clone starts
\* with an empty trace; and a step that changes the trace of an injector is a
\* step of a call on that injector and changes no other trace.
C31_CloneLeavesOriginal ==
  [][/\ \A j \in live' \ live :
          /\ \A k \in live :
               /\ dependencies'[k] = dependencies[k]
               /\ instances'[k] = instances[k]
               /\ trace'[k] = trace[k]
          /\ depHeap' = depHeap
          /\ stack' = stack
          /\ trace'[j] = <<>>
     /\ \A i \in live :
          trace'[i] # trace[i] =>
            /\ stack'[i] # stack[i]
            /\ \A k \in Injectors \ {i} : trace'[k] = trace[k]]_vars

\* C31 witness: the constructor of B cloned the injector while A and B were
\* under resolution on it, no constructor having returned yet; the clone has
\* since started a Resolve of its own and pushed A, and the trace of the
\* original still is A, B.
C31_Witness ==
  /\ 2 \in live /\ ~Idle(1) /\ ~Idle(2)
  /\ trace[1] = <<"A", "B">> /\ trace[2] = <<"A">>
  /\ dependencies[2] = dependencies[1]
  /\ \A d \in DepIds : calls[d] = 0

\* C32: a step of a Resolve on one injector writes nothing another live
\* injector can reach: not its trace, not its cache, and no provider entry
\* its registry points to (policy, constructor, injected provider).
C32_ResolveWritesOwnState ==
  [][\A i \in live :
       (~Idle(i) /\ stack'[i] # stack[i]) =>
         \A j \in live \ {i} :
           /\ trace'[j] = trace[j]
           /\ instances'[j] = instances[j]
           /\ \A t \in Types :
                Registered(j, t) => depHeap'[dependencies[j][t]] = depHeap[dependencies[j][t]]]_vars

C34_CacheEntryKept ==
  [][\A i \in live : \A t \in Types :
       instances[i][t] # NoInstance => instances'[i][t] = instances[i][t]]_vars

\* Every type with a cached instance on injector i has an entry with the
\* singleton policy in the registry of i.
CachedHaveSingletonProvider ==
  \A i \in live : \A t \in Types : instances[i][t] # NoInstance => IsSingleton(i, t)

\* C35: in every state, before and after every step, each type cached on an
\* injector, original or clone, has a singleton provider on that injector;
\* and the iteration of Resolve that meets a pointer to a type with a cached
\* instance writes that instance: it does not end with ErrNoSuchProvider.
C35_CachedTypesRegistered ==
  [][/\ CachedHaveSingletonProvider
     /\ CachedHaveSingletonProvider'
     /\ \A i \in live :
          (/\ AtItem(i) /\ Item(Top(i)).ptr
           /\ instances[i][Item(Top(i)).typ] # NoInstance
           /\ stack'[i] # stack[i])
            => /\ outcome'[i].err # "ErrNoSuchProvider"
               /\ stack'[i] = [stack[i] EXCEPT ![Len(stack[i])].refs =
                                 Append(@, instances[i][Item(Top(i)).typ])]]_vars

\* C35 witness: the singleton B was cached on the original before the
\* cloning; the clone registered the singleton A for itself and resolved it:
\* the parameter B was served from the inherited cache entry, and A is
\* cached on the clone only.
C35_Witness ==
  /\ 2 \in live /\ Idle(2) /\ outcome[2] = Ok
  /\ dependencies[2]["B"] = <<1, "B">> /\ IsSingleton(2, "B")
  /\ dependencies[2]["A"] = <<2, "A">> /\ IsSingleton(2, "A") /\ ~Registered(1, "A")
  /\ instances[1]["B"].addr > 0 /\ instances[2]["B"] = instances[1]["B"]
  /\ instances[2]["A"].addr > 0 /\ instances[1]["A"] = NoInstance
  /\ instances[2]["A"].args = <<instances[1]["B"]>>
  /\ refs[2] = <<instances[2]["A"]>>
  /\ calls[<<1, "B">>] = 1

\* C36: the ErrCyclicDependency the caller keeps prints, in every later
\* state, the chain it printed when Push returned it, whatever is pushed on
\* or popped from the trace afterwards.
C36_ChainFixed ==
  held.set => HeldChain = held.chain

====
